---- MODULE Spec2Model ----
(***************************************************************************)
(* Model of the financial daily summary pipeline:                          *)
(*   - the orchestrator (market_flow.py, main.py): primary crew run,       *)
(*     error notification, simplified fallback run;                        *)
(*   - the Summarization tool (summary_agent.py): input normalisation,     *)
(*     retry loop with exponential backoff, truncation fallback;           *)
(*   - the Translation tool (translate_agent.py): input normalisation,     *)
(*     single completion call, JSON extraction and key backfill;           *)
(*   - the Delivery tool (send_agent.py): report normalisation, message    *)
(*     assembly and splitting, Markdown and plain posts, chart photos;     *)
(*   - the News Retrieval tool (search_agent.py): query normalisation,     *)
(*     the two provider attempts, the hardcoded headline list.             *)
(* Strings whose content matters are sequences of one-character strings.   *)
(***************************************************************************)
EXTENDS Integers, Sequences, FiniteSets, TLC

VARIABLES
    \* ---- orchestrator (market_flow.py, main.py) ----
    entry,              \* which __main__ block started the process
    missing,            \* what validate_config found missing on import
    GROQ_API_KEY,       \* TRUE iff the model credential is set
    TELEGRAM_BOT_TOKEN, \* TRUE iff the chat bot credential is set
    TELEGRAM_CHAT_ID,   \* TRUE iff the chat destination is set
    TAVILY_API_KEY,     \* TRUE iff the primary search credential is set
    SERPER_API_KEY,     \* TRUE iff the secondary search credential is set
    pc,                 \* position of the orchestrator
    task,               \* index of the current task / step of the run
    stage,              \* status of each stage in the current run
    news_data,          \* output of the search stage
    summary_data,       \* output of the summary stage
    charts_data,        \* output of the formatting stage
    translations_data,  \* output of the translate stage
    final_data,         \* the report handed to send_tool.run by the run
    send_log,           \* every send_tool.run invocation, in order
    e,                  \* exception caught by run_market_flow
    primary_result,     \* how run_market_flow ended
    raised,             \* exception run_market_flow raised to its caller
    simple_result,      \* how run_market_flow_simple ended
    process_result,     \* what the invoking process observes
    \* ---- Summarization tool (summary_agent.py) ----
    news,               \* the value summary_agent was called with
    sum_pc,             \* position inside summary_agent
    headlines,          \* the extracted headline list
    attempt,            \* loop variable of the retry loop
    completion_calls,   \* completion(...) calls made by this invocation
    sleeps,             \* time.sleep durations of this invocation, in order
    success_attempt,    \* 1-based attempt whose completion call succeeded
    summary,            \* the value summary_agent returned
    \* ---- Translation tool (translate_agent.py) ----
    tr_summary,         \* the value translate_agent was called with
    tr_pc,              \* position inside translate_agent
    text,               \* the normalized summary text
    tr_completion_calls,\* completion(...) calls made by this invocation
    content,            \* the response text of the completion call
    tr_path,            \* the return statement translate_agent left by
    translations,       \* the value translate_agent returned
    \* ---- Delivery tool (send_agent.py) ----
    dl_data,            \* the value send_agent was called with
    dl_pc,              \* position inside send_agent
    structured_data,    \* the report _parse_input_data returned
    full_message,       \* the message assembled from the report
    outbox,             \* the texts of the message being sent, in order
    out_i,              \* index in outbox of the text being sent
    http_log,           \* every HTTP post made, in order
    chart_i,            \* position of the chart loop in charts[:5]
    charts_sent,        \* the counter of _send_chart_images_sync
    dl_error,           \* str(e) of the exception send_sync caught
    dl_result,          \* the status string send_agent returned
    \* ---- News Retrieval tool (search_agent.py) ----
    query,              \* the value search_agent was called with
    sr_pc,              \* position inside search_agent
    sr_q,               \* q, the normalized query
    search_posts,       \* every requests.post made, in order
    real_news,          \* what _fetch_real_news has to return so far
    sr_result           \* the value search_agent returned

\* The credentials config.py reads from the environment.
config_vars == <<GROQ_API_KEY, TELEGRAM_BOT_TOKEN, TELEGRAM_CHAT_ID,
                 TAVILY_API_KEY, SERPER_API_KEY>>

orch_vars == <<entry, config_vars, missing, pc, task, stage, news_data, summary_data,
               charts_data, translations_data, final_data, send_log, e,
               primary_result, raised, simple_result, process_result>>

----------------------------------------------------------------------------
(* Python values and strings.                                              *)
(* A string is a sequence of one-character strings. A Python value is a    *)
(* record [t, s, keys, items]: t is its type, s the characters of a str    *)
(* (the digits of an int), keys/items the keys and values of a dict in     *)
(* insertion order, items the elements of a list.                          *)

PStr(chars) == [t |-> "str", s |-> chars, keys |-> <<>>, items |-> <<>>]
PInt(digits) == [t |-> "int", s |-> digits, keys |-> <<>>, items |-> <<>>]
PNone == [t |-> "none", s |-> <<>>, keys |-> <<>>, items |-> <<>>]
PList(elems) == [t |-> "list", s |-> <<>>, keys |-> <<>>, items |-> elems]
PDict(ks, vs) == [t |-> "dict", s |-> <<>>, keys |-> ks, items |-> vs]

\* key in d
HasKey(d, k) == \E i \in 1..Len(d.keys) : d.keys[i] = k
\* d[key]
Get(d, k) == d.items[CHOOSE i \in 1..Len(d.keys) : d.keys[i] = k]
\* d[key] = v: a new key goes last, an existing key keeps its position
SetKey(d, k, v) ==
    IF HasKey(d, k)
    THEN PDict(d.keys, [i \in 1..Len(d.items) |->
                           IF d.keys[i] = k THEN v ELSE d.items[i]])
    ELSE PDict(Append(d.keys, k), Append(d.items, v))

\* str.isspace for one character
IsSpace(c) == c \in {" ", "\n", "\t"}
IsDigit(c) == c \in {"0", "1", "2", "3", "4", "5", "6", "7", "8", "9"}

RECURSIVE Rep(_, _)
\* s * n
Rep(chars, n) ==
    IF n <= 0 THEN <<>>
    ELSE IF n = 1 THEN chars
    ELSE Rep(chars, n \div 2) \o Rep(chars, n - n \div 2)

RECURSIVE Ascending(_, _, _)
\* the members of the set S between lo and hi, in increasing order
Ascending(S, lo, hi) ==
    IF lo > hi THEN <<>>
    ELSE IF lo = hi THEN (IF lo \in S THEN <<lo>> ELSE <<>>)
    ELSE Ascending(S, lo, (lo + hi) \div 2)
         \o Ascending(S, (lo + hi) \div 2 + 1, hi)

\* str.split(): the maximal runs of non-whitespace characters, in order
split(chars) ==
    LET n == Len(chars)
        starts == Ascending({i \in 1..n : /\ ~IsSpace(chars[i])
                                          /\ (i = 1 \/ IsSpace(chars[i - 1]))},
                            1, n)
        ends == Ascending({i \in 1..n : /\ ~IsSpace(chars[i])
                                        /\ (i = n \/ IsSpace(chars[i + 1]))},
                          1, n)
    IN  [k \in 1..Len(starts) |-> SubSeq(chars, starts[k], ends[k])]

RECURSIVE JoinRange(_, _, _, _)
JoinRange(sep, parts, lo, hi) ==
    IF lo > hi THEN <<>>
    ELSE IF lo = hi THEN parts[lo]
    ELSE JoinRange(sep, parts, lo, (lo + hi) \div 2) \o sep
         \o JoinRange(sep, parts, (lo + hi) \div 2 + 1, hi)

\* sep.join(parts) for a sequence of strings
join(sep, parts) == JoinRange(sep, parts, 1, Len(parts))

\* str.lstrip(): the text from its first character that is not whitespace
LStrip(chars) ==
    IF \A i \in 1..Len(chars) : IsSpace(chars[i]) THEN <<>>
    ELSE SubSeq(chars,
                CHOOSE i \in 1..Len(chars) :
                    /\ ~IsSpace(chars[i])
                    /\ \A j \in 1..(i - 1) : IsSpace(chars[j]),
                Len(chars))

\* str.rstrip(): the text up to its last character that is not whitespace
RStrip(chars) ==
    IF \A i \in 1..Len(chars) : IsSpace(chars[i]) THEN <<>>
    ELSE SubSeq(chars, 1,
                CHOOSE i \in 1..Len(chars) :
                    /\ ~IsSpace(chars[i])
                    /\ \A j \in (i + 1)..Len(chars) : IsSpace(chars[j]))

\* str.strip()
strip(chars) == RStrip(LStrip(chars))

RECURSIVE SplitLinesFrom(_, _, _, _)
SplitLinesFrom(chars, i, cur, acc) ==
    IF i > Len(chars)
    THEN IF cur = <<>> THEN acc ELSE Append(acc, cur)
    ELSE IF chars[i] = "\n"
         THEN SplitLinesFrom(chars, i + 1, <<>>, Append(acc, cur))
         ELSE SplitLinesFrom(chars, i + 1, Append(cur, chars[i]), acc)

\* str.splitlines(): the lines without their terminators
splitlines(chars) == SplitLinesFrom(chars, 1, <<>>, <<>>)

----------------------------------------------------------------------------
(* json.loads for objects, arrays, strings without escapes and integers.   *)
(* A parse result is [ok, val, next]: next is the index after the value.   *)

ParseFail == [ok |-> FALSE, val |-> PNone, next |-> 0]
ParseOk(v, n) == [ok |-> TRUE, val |-> v, next |-> n]

RECURSIVE SkipWs(_, _)
SkipWs(chars, i) ==
    IF i <= Len(chars) /\ IsSpace(chars[i]) THEN SkipWs(chars, i + 1) ELSE i

RECURSIVE DigitsEnd(_, _)
DigitsEnd(chars, i) ==
    IF i <= Len(chars) /\ IsDigit(chars[i]) THEN DigitsEnd(chars, i + 1) ELSE i

\* a string literal starting at the quote chars[i]
ParseString(chars, i) ==
    LET closing == {j \in (i + 1)..Len(chars) : chars[j] = "\""}
    IN  IF closing = {} THEN ParseFail
        ELSE LET j == CHOOSE k \in closing : \A m \in closing : k <= m
                 body == SubSeq(chars, i + 1, j - 1)
             IN  IF \E m \in 1..Len(body) : body[m] \in {"\n", "\t"}
                 THEN ParseFail
                 ELSE ParseOk(PStr(body), j + 1)

RECURSIVE ParseValue(_, _)
RECURSIVE ParseElements(_, _, _)
RECURSIVE ParseMembers(_, _, _)

\* the elements of an array from index i on, after "[" or ","
ParseElements(chars, i, acc) ==
    LET v == ParseValue(chars, i)
        n == SkipWs(chars, v.next)
    IN  IF ~v.ok \/ n > Len(chars) THEN ParseFail
        ELSE IF chars[n] = "," THEN ParseElements(chars, n + 1, Append(acc, v.val))
        ELSE IF chars[n] = "]" THEN ParseOk(PList(Append(acc, v.val)), n + 1)
        ELSE ParseFail

\* the members of an object from index i on, after "{" or ","
ParseMembers(chars, i, acc) ==
    LET k0 == SkipWs(chars, i)
        k == IF k0 <= Len(chars) /\ chars[k0] = "\""
             THEN ParseString(chars, k0) ELSE ParseFail
        c == SkipWs(chars, k.next)
        v == IF k.ok /\ c <= Len(chars) /\ chars[c] = ":"
             THEN ParseValue(chars, c + 1) ELSE ParseFail
        n == SkipWs(chars, v.next)
    IN  IF ~v.ok \/ n > Len(chars) THEN ParseFail
        ELSE IF chars[n] = ","
             THEN ParseMembers(chars, n + 1, SetKey(acc, k.val.s, v.val))
        ELSE IF chars[n] = "}"
             THEN ParseOk(SetKey(acc, k.val.s, v.val), n + 1)
        ELSE ParseFail

ParseValue(chars, i0) ==
    LET i == SkipWs(chars, i0)
    IN  IF i > Len(chars) THEN ParseFail
        ELSE IF chars[i] = "\"" THEN ParseString(chars, i)
        ELSE IF IsDigit(chars[i])
             THEN ParseOk(PInt(SubSeq(chars, i, DigitsEnd(chars, i) - 1)),
                          DigitsEnd(chars, i))
        ELSE IF chars[i] = "["
             THEN LET n == SkipWs(chars, i + 1)
                  IN  IF n <= Len(chars) /\ chars[n] = "]"
                      THEN ParseOk(PList(<<>>), n + 1)
                      ELSE ParseElements(chars, i + 1, <<>>)
        ELSE IF chars[i] = "{"
             THEN LET n == SkipWs(chars, i + 1)
                  IN  IF n <= Len(chars) /\ chars[n] = "}"
                      THEN ParseOk(PDict(<<>>, <<>>), n + 1)
                      ELSE ParseMembers(chars, i + 1, PDict(<<>>, <<>>))
        ELSE ParseFail

\* json.loads(chars): ok is FALSE where json.loads raises JSONDecodeError
json_loads(chars) ==
    LET r == ParseValue(chars, 1)
    IN  IF r.ok /\ SkipWs(chars, r.next) > Len(chars)
        THEN [ok |-> TRUE, val |-> r.val]
        ELSE [ok |-> FALSE, val |-> PNone]

----------------------------------------------------------------------------
(* Orchestrator: market_flow.py and main.py                                *)

\* State of the tools, which the orchestrator's own steps leave alone.
sum_vars == <<news, sum_pc, headlines, attempt, completion_calls, sleeps,
              success_attempt, summary>>

tr_vars == <<tr_summary, tr_pc, text, tr_completion_calls, content, tr_path,
             translations>>

dl_vars == <<dl_data, dl_pc, structured_data, full_message, outbox, out_i, http_log,
             chart_i, charts_sent, dl_error, dl_result>>

sr_vars == <<query, sr_pc, sr_q, search_posts, real_news, sr_result>>

tool_vars == <<sum_vars, tr_vars, dl_vars, sr_vars>>

vars == <<orch_vars, tool_vars>>

\* Mutant: send_task is listed before translate_task.
Tasks_send_before_translate ==
    <<"search", "summary", "charts", "send", "translate">>

\* tasks=[search_task, summary_task, charts_task, translate_task, send_task]
Tasks == <<"search", "summary", "charts", "translate", "send">>

Stages == {"search", "summary", "charts", "translate", "send"}

\* Values a stage can hand forward (abstract tokens for text content).
NewsOutputs == {<<"h1">>, <<"h1", "h2">>}
SummaryOutputs == {"s1", "s2"}
\* formatting_agent returns a fixed two-element placeholder list
ChartsOutput == <<"Chart1", "Chart2">>
TranslationOutputs(txt) ==
    { [Hindi |-> "hi", Arabic |-> "ar", Hebrew |-> "he"],
      [Hindi |-> txt, Arabic |-> txt, Hebrew |-> txt] }

NoTranslations == [Hindi |-> "", Arabic |-> "", Hebrew |-> ""]
NoReport == [summary |-> "", charts |-> <<>>, translations |-> NoTranslations]

\* Exceptions that can surface: one per origin.
InitError == "ValueError: GROQ_API_KEY is required but not found!"
LLMInitError == "LLM init error"
StageError(s) == "error in " \o s

\* error_data of run_market_flow's handler
error_data(exc) ==
    [summary |-> "Daily market summary failed due to technical issue: " \o exc,
     charts |-> <<>>,
     translations |-> [Hindi |-> "hi: daily summary failed",
                       Arabic |-> "ar: daily summary failed",
                       Hebrew |-> "he: daily summary failed"]]

IdleStages == [s \in Stages |-> "idle"]

OrchInit ==
    /\ entry \in {"main_py", "market_flow_main"}
    /\ GROQ_API_KEY \in BOOLEAN
    /\ TELEGRAM_BOT_TOKEN \in BOOLEAN
    /\ TELEGRAM_CHAT_ID \in BOOLEAN
    /\ TAVILY_API_KEY \in BOOLEAN
    /\ SERPER_API_KEY \in BOOLEAN
    /\ missing = <<>>
    /\ pc = "import_config"
    /\ task = 0
    /\ stage = IdleStages
    /\ news_data = <<>>
    /\ summary_data = ""
    /\ charts_data = <<>>
    /\ translations_data = NoTranslations
    /\ final_data = NoReport
    /\ send_log = <<>>
    /\ e = ""
    /\ primary_result = "none"
    /\ raised = ""
    /\ simple_result = "none"
    /\ process_result = "none"

\* config.py lines 89-98: the names validate_config collects
MissingVariables ==
    (IF ~GROQ_API_KEY THEN <<"GROQ_API_KEY">> ELSE <<>>)
    \o (IF ~TELEGRAM_BOT_TOKEN THEN <<"TELEGRAM_BOT_TOKEN">> ELSE <<>>)
    \o (IF ~TELEGRAM_CHAT_ID THEN <<"TELEGRAM_CHAT_ID">> ELSE <<>>)
    \o (IF ~(TAVILY_API_KEY \/ SERPER_API_KEY)
        THEN <<"TAVILY_API_KEY or SERPER_API_KEY">> ELSE <<>>)

\* config.py lines 110-118: the module is imported by the agents, so
\* validate_config runs inside "try ... except ValueError", which prints the
\* configuration error and lets the import, and the process, go on.
validate_config_on_import ==
    /\ pc = "import_config"
    /\ missing' = MissingVariables
    /\ pc' = "run_market_flow"
    /\ UNCHANGED <<entry, config_vars, task, stage, news_data, summary_data,
                   charts_data, translations_data, final_data, send_log, e,
                   primary_result, simple_result, process_result, raised,
                   tool_vars>>

\* create_groq_llm raises ValueError when the credential is missing; the LLM,
\* Agent, Task and Crew constructors may raise as well. Either way control
\* reaches the except clause of run_market_flow before any task has started.
create_groq_llm_raises ==
    /\ pc = "run_market_flow"
    /\ \/ ~GROQ_API_KEY /\ e' = InitError
       \/ GROQ_API_KEY /\ e' = LLMInitError
    /\ pc' = "except"
    /\ UNCHANGED <<entry, config_vars, missing, task, stage, news_data, summary_data,
                   charts_data, translations_data, final_data, send_log,
                   primary_result, simple_result, process_result, raised,
                   tool_vars>>

\* Initialization succeeded: crew.kickoff() starts with the first task.
crew_kickoff ==
    /\ pc = "run_market_flow"
    /\ GROQ_API_KEY
    /\ pc' = "kickoff"
    /\ task' = 1
    /\ UNCHANGED <<entry, config_vars, missing, stage, news_data, summary_data,
                   charts_data, translations_data, final_data, send_log, e,
                   primary_result, simple_result, process_result, raised,
                   tool_vars>>

\* The report a run assembles for Delivery from the three stage outputs.
Report == [summary |-> summary_data, charts |-> charts_data,
           translations |-> translations_data]

\* A stage starts: its status becomes running; the send stage is handed the
\* report, and the invocation is logged.
StartStage(s, mode) ==
    /\ stage[s] = "idle"
    /\ stage' = [stage EXCEPT ![s] = "running"]
    /\ IF s = "send"
       THEN /\ final_data' = Report
            /\ send_log' = Append(send_log, [mode |-> mode, kind |-> "report",
                                             data |-> Report, ok |-> TRUE])
       ELSE UNCHANGED <<final_data, send_log>>

\* A running stage returns its output.
ReturnStage(s) ==
    /\ stage[s] = "running"
    /\ stage' = [stage EXCEPT ![s] = "returned"]
    /\ CASE s = "search" ->
              /\ news_data' \in NewsOutputs
              /\ UNCHANGED <<summary_data, charts_data, translations_data>>
         [] s = "summary" ->
              /\ summary_data' \in SummaryOutputs
              /\ UNCHANGED <<news_data, charts_data, translations_data>>
         [] s = "charts" ->
              /\ charts_data' = ChartsOutput
              /\ UNCHANGED <<news_data, summary_data, translations_data>>
         [] s = "translate" ->
              /\ translations_data' \in TranslationOutputs(summary_data)
              /\ UNCHANGED <<news_data, summary_data, charts_data>>
         [] s = "send" ->
              UNCHANGED <<news_data, summary_data, charts_data,
                          translations_data>>

\* crew.kickoff(), process="sequential": the tasks run in list order, each
\* task's tool fed from the outputs of its context tasks.
crew_task_start ==
    /\ pc = "kickoff"
    /\ task \in 1..Len(Tasks)
    /\ StartStage(Tasks[task], "primary")
    /\ UNCHANGED <<entry, config_vars, missing, pc, task, news_data, summary_data,
                   charts_data, translations_data, e, primary_result,
                   simple_result, process_result, raised, tool_vars>>

crew_task_return ==
    /\ pc = "kickoff"
    /\ task \in 1..Len(Tasks)
    /\ ReturnStage(Tasks[task])
    /\ task' = task + 1
    /\ UNCHANGED <<entry, config_vars, missing, pc, final_data, send_log, e,
                   primary_result, simple_result, process_result, raised,
                   tool_vars>>

\* An exception surfaces from the running task through crew.kickoff().
crew_task_raise ==
    /\ pc = "kickoff"
    /\ task \in 1..Len(Tasks)
    /\ stage[Tasks[task]] = "running"
    /\ stage' = [stage EXCEPT ![Tasks[task]] = "raised"]
    /\ e' = StageError(Tasks[task])
    /\ pc' = "except"
    /\ UNCHANGED <<entry, config_vars, missing, task, news_data, summary_data,
                   charts_data, translations_data, final_data, send_log,
                   primary_result, simple_result, process_result, raised,
                   tool_vars>>

\* kickoff returned: run_market_flow returns the result.
run_market_flow_return ==
    /\ pc = "kickoff"
    /\ task = Len(Tasks) + 1
    /\ primary_result' = "returned"
    /\ pc' = "primary_exit"
    /\ UNCHANGED <<entry, config_vars, missing, task, stage, news_data, summary_data,
                   charts_data, translations_data, final_data, send_log, e,
                   simple_result, process_result, raised, tool_vars>>

\* except Exception as e: send_tool.run(error_data) inside its own try; the
\* notification returns or raises, and both outcomes fall through to raise e.
\* Mutant: raise e sits inside the try, so a failed notification skips it
\* and run_market_flow returns normally.
error_notification_swallowing ==
    /\ pc = "except"
    /\ \E ok \in BOOLEAN :
         /\ send_log' = Append(send_log, [mode |-> "primary", kind |-> "error",
                                          data |-> error_data(e), ok |-> ok])
         /\ pc' = IF ok THEN "raise_e" ELSE "primary_exit"
         /\ primary_result' = IF ok THEN primary_result ELSE "returned"
    /\ UNCHANGED <<entry, config_vars, missing, task, stage, news_data, summary_data,
                   charts_data, translations_data, final_data, e,
                   simple_result, process_result, raised, tool_vars>>

error_notification ==
    /\ pc = "except"
    /\ \E ok \in BOOLEAN :
         send_log' = Append(send_log, [mode |-> "primary", kind |-> "error",
                                       data |-> error_data(e), ok |-> ok])
    /\ pc' = "raise_e"
    /\ UNCHANGED <<entry, config_vars, missing, task, stage, news_data, summary_data,
                   charts_data, translations_data, final_data, e,
                   primary_result, simple_result, process_result, raised,
                   tool_vars>>

\* raise e
run_market_flow_raise ==
    /\ pc = "raise_e"
    /\ primary_result' = "raised"
    /\ raised' = e
    /\ pc' = "primary_exit"
    /\ UNCHANGED <<entry, config_vars, missing, task, stage, news_data, summary_data,
                   charts_data, translations_data, final_data, send_log, e,
                   simple_result, process_result, tool_vars>>

\* market_flow.main: try run_market_flow() / except Exception: fall back to
\* run_market_flow_simple(). A fresh run starts: no stage has run in it and
\* its local variables are not yet bound.
\* Mutant: the fallback runs whatever the outcome of the primary run.
main_fallback_always ==
    /\ entry = "market_flow_main"
    /\ pc = "primary_exit"
    /\ pc' = "simple"
    /\ task' = 1
    /\ stage' = IdleStages
    /\ news_data' = <<>>
    /\ summary_data' = ""
    /\ charts_data' = <<>>
    /\ translations_data' = NoTranslations
    /\ final_data' = NoReport
    /\ UNCHANGED <<entry, config_vars, missing, send_log, e, primary_result,
                   simple_result, process_result, raised, tool_vars>>

main_fallback ==
    /\ entry = "market_flow_main"
    /\ pc = "primary_exit"
    /\ primary_result = "raised"
    /\ pc' = "simple"
    /\ task' = 1
    /\ stage' = IdleStages
    /\ news_data' = <<>>
    /\ summary_data' = ""
    /\ charts_data' = <<>>
    /\ translations_data' = NoTranslations
    /\ final_data' = NoReport
    /\ UNCHANGED <<entry, config_vars, missing, send_log, e, primary_result,
                   simple_result, process_result, raised, tool_vars>>

\* market_flow.main returns what run_market_flow returned.
main_return ==
    /\ entry = "market_flow_main"
    /\ pc = "primary_exit"
    /\ primary_result = "returned"
    /\ process_result' = "returned"
    /\ pc' = "done"
    /\ UNCHANGED <<entry, config_vars, missing, task, stage, news_data, summary_data,
                   charts_data, translations_data, final_data, send_log, e,
                   primary_result, simple_result, raised, tool_vars>>

\* main.py: run_market_flow() is called bare; its exception ends the process,
\* its return is followed by the final print.
main_py_exit ==
    /\ entry = "main_py"
    /\ pc = "primary_exit"
    /\ process_result' = primary_result
    /\ pc' = "done"
    /\ UNCHANGED <<entry, config_vars, missing, task, stage, news_data, summary_data,
                   charts_data, translations_data, final_data, send_log, e,
                   primary_result, simple_result, raised, tool_vars>>

\* run_market_flow_simple: the five statements of its try block, in order.
SimpleSteps == <<"search", "summary", "charts", "translate", "send">>

simple_step_start ==
    /\ pc = "simple"
    /\ task \in 1..Len(SimpleSteps)
    /\ StartStage(SimpleSteps[task], "simple")
    /\ UNCHANGED <<entry, config_vars, missing, pc, task, news_data, summary_data,
                   charts_data, translations_data, e, primary_result,
                   simple_result, process_result, raised, tool_vars>>

simple_step_return ==
    /\ pc = "simple"
    /\ task \in 1..Len(SimpleSteps)
    /\ ReturnStage(SimpleSteps[task])
    /\ task' = task + 1
    /\ UNCHANGED <<entry, config_vars, missing, pc, final_data, send_log, e,
                   primary_result, simple_result, process_result, raised,
                   tool_vars>>

\* except Exception as e: return f"All flows failed: {e}"
\* Mutant: the step that raised is tried again.
simple_step_raise_retrying ==
    /\ pc = "simple"
    /\ task \in 1..Len(SimpleSteps)
    /\ stage[SimpleSteps[task]] = "running"
    /\ stage' = [stage EXCEPT ![SimpleSteps[task]] = "idle"]
    /\ UNCHANGED <<entry, config_vars, missing, task, news_data, summary_data,
                   charts_data, translations_data, final_data, send_log, e,
                   primary_result, raised, simple_result, process_result, pc,
                   tool_vars>>

simple_step_raise ==
    /\ pc = "simple"
    /\ task \in 1..Len(SimpleSteps)
    /\ stage[SimpleSteps[task]] = "running"
    /\ stage' = [stage EXCEPT ![SimpleSteps[task]] = "raised"]
    /\ simple_result' = "All flows failed"
    /\ process_result' = "returned"
    /\ pc' = "done"
    /\ UNCHANGED <<entry, config_vars, missing, task, news_data, summary_data,
                   charts_data, translations_data, final_data, send_log, e,
                   primary_result, raised, tool_vars>>

\* return send_result
run_market_flow_simple_return ==
    /\ pc = "simple"
    /\ task = Len(SimpleSteps) + 1
    /\ simple_result' = "send_result"
    /\ process_result' = "returned"
    /\ pc' = "done"
    /\ UNCHANGED <<entry, config_vars, missing, task, stage, news_data, summary_data,
                   charts_data, translations_data, final_data, send_log, e,
                   primary_result, raised, tool_vars>>

OrchNext ==
    \/ validate_config_on_import
    \/ create_groq_llm_raises
    \/ crew_kickoff
    \/ crew_task_start
    \/ crew_task_return
    \/ crew_task_raise
    \/ run_market_flow_return
    \/ error_notification
    \/ run_market_flow_raise
    \/ main_fallback
    \/ main_return
    \/ main_py_exit
    \/ simple_step_start
    \/ simple_step_return
    \/ simple_step_raise
    \/ run_market_flow_simple_return

----------------------------------------------------------------------------
(* Summarization tool: summary_agent.py                                    *)

max_retries == 5
\* the fallback keeps at most this many words
WordLimit == 200
\* inputs exceed WordLimit by up to this many words
MaxExtraWords == 1

\* "No news available to summarize."
NoNewsSentinel ==
    <<"N", "o", " ", "n", "e", "w", "s", " ", "a", "v", "a", "i", "l", "a",
      "b", "l", "e", " ", "t", "o", " ", "s", "u", "m", "m", "a", "r", "i",
      "z", "e", ".">>

Ellipsis == <<".", ".", ".">>

k_news == <<"n", "e", "w", "s">>
k_description == <<"d", "e", "s", "c", "r", "i", "p", "t", "i", "o", "n">>

\* [line.strip() for line in news.splitlines() if line.strip()]
StrippedLines(chars) ==
    LET lines == splitlines(chars)
        kept == SelectSeq(lines, LAMBDA line : strip(line) # <<>>)
    IN  [i \in 1..Len(kept) |-> PStr(strip(kept[i]))]

\* the first list among the values of a dict, [] when there is none
FirstListValue(d) ==
    LET lists == {i \in 1..Len(d.items) : d.items[i].t = "list"}
    IN  IF lists = {} THEN <<>>
        ELSE d.items[CHOOSE i \in lists : \A j \in lists : i <= j].items

\* "Extract list of headlines robustly": the headlines of any input value
ExtractHeadlines(v) ==
    IF v.t = "list" THEN v.items
    ELSE IF v.t = "dict"
         THEN IF HasKey(v, k_news) /\ Get(v, k_news).t = "list"
              THEN Get(v, k_news).items
              ELSE IF HasKey(v, k_description)
                      /\ Get(v, k_description).t = "list"
                   THEN Get(v, k_description).items
                   ELSE FirstListValue(v)
    ELSE IF v.t = "str"
         THEN LET parsed == json_loads(v.s)
              IN  IF parsed.ok /\ parsed.val.t = "list"
                  THEN parsed.val.items
                  ELSE StrippedLines(v.s)
    ELSE <<>>

\* str.join accepts only str elements; it raises TypeError otherwise
Joinable(items) == \A i \in 1..Len(items) : items[i].t = "str"
Strings(items) == [i \in 1..Len(items) |-> items[i].s]

\* Mutant: the fallback truncates without appending the ellipsis marker.
SimpleSummary_NoEllipsis(items) ==
    LET simple == join(<<" ">>, Strings(items))
        words == split(simple)
    IN  IF Len(words) > WordLimit
        THEN join(<<" ">>, SubSeq(words, 1, WordLimit))
        ELSE simple

\* "Safe fallback": the headlines joined, cut to the first WordLimit words
SimpleSummary(items) ==
    LET simple == join(<<" ">>, Strings(items))
        words == split(simple)
    IN  IF Len(words) > WordLimit
        THEN join(<<" ">>, SubSeq(words, 1, WordLimit)) \o Ellipsis
        ELSE simple

\* Mutant: linear instead of exponential backoff.
wait_time_linear(a) == 2 * a

\* wait_time = 2 ** attempt
wait_time(a) == 2 ^ a

\* Summaries the completion service may return.
LLMSummaries == {<<"o", "k">>, <<"u", "p", " ", "1", "%">>}

\* ---- inputs of summary_agent ----
\* a headline of n words, each followed by the separator sep
WordsHeadline(word, sep, n) == PStr(Rep(word \o sep, n))

SmallLists ==
    { PList(<<>>),
      PList(<<PStr(<<"a", " ", "b">>)>>),
      PList(<<PStr(<<"a">>), PStr(<<"b", " ", "c">>)>>),
      PList(<<PStr(<<" ", "a", " ", " ", "b", " ">>), PStr(<<"\n", "c">>)>>),
      PList(<<PStr(<<>>)>>),
      PList(<<PInt(<<"1">>)>>),
      PList(<<PStr(<<"a">>), PInt(<<"2">>)>>),
      PList(<<PStr(<<"a">>), PNone>>),
      PList(<<PList(<<PStr(<<"a">>)>>)>>) }

LongLists ==
    { PList(<<WordsHeadline(<<"w">>, sep, n)>>) :
        sep \in {<<" ">>, <<" ", "\n">>},
        n \in (WordLimit - 1)..(WordLimit + MaxExtraWords) }
    \cup
    { PList(<<WordsHeadline(<<"u", "p">>, <<" ">>, WordLimit \div 2),
              WordsHeadline(<<"x">>, <<"\t", " ">>, n)>>) :
        n \in (WordLimit \div 2 - 1)..(WordLimit \div 2 + MaxExtraWords) }

Dicts ==
    { PDict(<<>>, <<>>),
      PDict(<<k_news>>, <<PList(<<PStr(<<"a">>)>>)>>),
      PDict(<<k_news>>, <<PList(<<>>)>>),
      PDict(<<k_description>>, <<PList(<<PStr(<<"b">>)>>)>>),
      PDict(<<k_description, k_news>>,
            <<PList(<<PStr(<<"b">>)>>), PStr(<<"x">>)>>),
      PDict(<<k_description, k_news>>,
            <<PList(<<PStr(<<"b">>)>>), PList(<<PStr(<<"a">>)>>)>>),
      PDict(<<<<"z">>, k_news>>,
            <<PList(<<PStr(<<"c">>)>>), PList(<<PStr(<<"a">>)>>)>>),
      PDict(<<<<"o">>, <<"z">>>>, <<PStr(<<"s">>), PList(<<PStr(<<"c">>)>>)>>),
      PDict(<<<<"o">>>>, <<PStr(<<"s">>)>>),
      PDict(<<<<"z">>>>, <<PList(<<PInt(<<"1">>)>>)>>) }

TextInputs ==
    { PStr(<<>>),
      PStr(<<" ", "\n">>),
      PStr(<<"a", " ", "b">>),
      PStr(<<"a", "\n", " ", "b", " ", "\n", "\n", "c">>),
      PStr(<<"[", "]">>),
      PStr(<<"[", "\"", "a", "\"", ",", " ", "\"", "b", "\"", "]">>),
      PStr(<<"[", "1", "]">>),
      PStr(<<"[", "\"", "a", "\"">>),
      PStr(<<"{", "}">>),
      PStr(<<"{", "\"", "a", "\"", ":", "[", "\"", "b", "\"", "]", "}">>),
      PStr(<<"\"", "a", "\"">>),
      PStr(<<"7">>) }

OtherInputs == {PNone, PInt(<<"4">>)}

SummaryInputs ==
    SmallLists \cup LongLists \cup Dicts \cup TextInputs \cup OtherInputs

SumIdle ==
    /\ news = PNone
    /\ sum_pc = "idle"
    /\ headlines = <<>>
    /\ attempt = 0
    /\ completion_calls = 0
    /\ sleeps = <<>>
    /\ success_attempt = 0
    /\ summary = <<>>

SumInit ==
    /\ news \in SummaryInputs
    /\ sum_pc = "called"
    /\ headlines = <<>>
    /\ attempt = 0
    /\ completion_calls = 0
    /\ sleeps = <<>>
    /\ success_attempt = 0
    /\ summary = <<>>

\* Lines 17-44: extract the headlines; return the sentinel when there are
\* none; "\n".join(headlines) raises TypeError on a non-str element.
\* Mutant: the sentinel is returned only after one completion call.
summary_extract_call_first ==
    /\ sum_pc = "called"
    /\ headlines' = ExtractHeadlines(news)
    /\ IF ~Joinable(headlines')
       THEN sum_pc' = "raised" /\ UNCHANGED <<summary, completion_calls>>
       ELSE IF headlines' = <<>>
            THEN /\ sum_pc' = "returned"
                 /\ summary' = NoNewsSentinel
                 /\ completion_calls' = completion_calls + 1
            ELSE sum_pc' = "attempt" /\ UNCHANGED <<summary, completion_calls>>
    /\ UNCHANGED <<news, attempt, sleeps, success_attempt>>
    /\ UNCHANGED <<orch_vars, tr_vars, dl_vars, sr_vars>>

summary_extract ==
    /\ sum_pc = "called"
    /\ headlines' = ExtractHeadlines(news)
    /\ IF headlines' = <<>>
       THEN sum_pc' = "returned" /\ summary' = NoNewsSentinel
       ELSE IF Joinable(headlines')
            THEN sum_pc' = "attempt" /\ UNCHANGED summary
            ELSE sum_pc' = "raised" /\ UNCHANGED summary
    /\ UNCHANGED <<news, attempt, completion_calls, sleeps, success_attempt>>
    /\ UNCHANGED <<orch_vars, tr_vars, dl_vars, sr_vars>>

\* Lines 49-59: the completion call of this attempt returns a summary.
completion_returns ==
    /\ sum_pc = "attempt"
    /\ attempt < max_retries
    /\ completion_calls' = completion_calls + 1
    /\ success_attempt' = attempt + 1
    /\ summary' \in LLMSummaries
    /\ sum_pc' = "returned"
    /\ UNCHANGED <<news, headlines, attempt, sleeps>>
    /\ UNCHANGED <<orch_vars, tr_vars, dl_vars, sr_vars>>

\* Lines 49-60: the completion call (or reading its response) raises.
completion_raises ==
    /\ sum_pc = "attempt"
    /\ attempt < max_retries
    /\ completion_calls' = completion_calls + 1
    /\ sum_pc' = "except"
    /\ UNCHANGED <<news, headlines, attempt, sleeps, success_attempt, summary>>
    /\ UNCHANGED <<orch_vars, tr_vars, dl_vars, sr_vars>>

\* Lines 63-65: if attempt < max_retries - 1: sleep, then the next attempt.
\* Mutant: the guard is attempt < max_retries, so the last failure sleeps too.
retry_sleep_after_last ==
    /\ sum_pc = "except"
    /\ attempt < max_retries
    /\ sleeps' = Append(sleeps, wait_time(attempt))
    /\ attempt' = attempt + 1
    /\ sum_pc' = IF attempt + 1 < max_retries THEN "attempt" ELSE "except"
    /\ UNCHANGED <<news, headlines, completion_calls, success_attempt, summary>>
    /\ UNCHANGED <<orch_vars, tr_vars, dl_vars, sr_vars>>

retry_sleep ==
    /\ sum_pc = "except"
    /\ attempt < max_retries - 1
    /\ sleeps' = Append(sleeps, wait_time(attempt))
    /\ attempt' = attempt + 1
    /\ sum_pc' = "attempt"
    /\ UNCHANGED <<news, headlines, completion_calls, success_attempt, summary>>
    /\ UNCHANGED <<orch_vars, tr_vars, dl_vars, sr_vars>>

\* Mutant: after the last failed attempt the loop starts over.
fallback_return_starting_over ==
    /\ sum_pc = "except"
    /\ ~(attempt < max_retries - 1)
    /\ attempt' = 0
    /\ sum_pc' = "attempt"
    /\ UNCHANGED <<news, headlines, completion_calls, sleeps, success_attempt,
                   summary>>
    /\ UNCHANGED <<orch_vars, tr_vars, dl_vars, sr_vars>>

\* Lines 66-73: the last attempt failed: return the simple summary.
fallback_return ==
    /\ sum_pc = "except"
    /\ ~(attempt < max_retries - 1)
    /\ summary' = SimpleSummary(headlines)
    /\ sum_pc' = "returned"
    /\ UNCHANGED <<news, headlines, attempt, completion_calls, sleeps,
                   success_attempt>>
    /\ UNCHANGED <<orch_vars, tr_vars, dl_vars, sr_vars>>

SumNext ==
    \/ summary_extract
    \/ completion_returns
    \/ completion_raises
    \/ retry_sleep
    \/ fallback_return

----------------------------------------------------------------------------
(* Translation tool: translate_agent.py                                    *)

k_Hindi == <<"H", "i", "n", "d", "i">>
k_Arabic == <<"A", "r", "a", "b", "i", "c">>
k_Hebrew == <<"H", "e", "b", "r", "e", "w">>
k_summary == <<"s", "u", "m", "m", "a", "r", "y">>
k_text == <<"t", "e", "x", "t">>

\* for lang in ["Hindi", "Arabic", "Hebrew"]
Langs == <<k_Hindi, k_Arabic, k_Hebrew>>

\* repr of a string: the quote is ' unless the text has ' and no ", and the
\* backslash, the quote in use, newline and tab are written as escapes
StrRepr(chars) ==
    LET q == IF (\E i \in 1..Len(chars) : chars[i] = "'")
                /\ ~(\E i \in 1..Len(chars) : chars[i] = "\"")
             THEN "\"" ELSE "'"
        Esc(c) == IF c = "\\" THEN <<"\\", "\\">>
                  ELSE IF c = q THEN <<"\\", c>>
                  ELSE IF c = "\n" THEN <<"\\", "n">>
                  ELSE IF c = "\t" THEN <<"\\", "t">>
                  ELSE <<c>>
    IN  <<q>> \o join(<<>>, [i \in 1..Len(chars) |-> Esc(chars[i])]) \o <<q>>

\* repr(v) of a list element, str(v) of anything that is no str
RECURSIVE py_repr(_)
py_repr(v) ==
    IF v.t = "str" THEN StrRepr(v.s)
    ELSE IF v.t = "int" THEN v.s
    ELSE IF v.t = "none" THEN <<"N", "o", "n", "e">>
    ELSE IF v.t = "list"
         THEN <<"[">>
              \o join(<<",", " ">>, [i \in 1..Len(v.items) |-> py_repr(v.items[i])])
              \o <<"]">>
    ELSE <<"{">>
         \o join(<<",", " ">>,
                 [i \in 1..Len(v.items) |->
                    StrRepr(v.keys[i]) \o <<":", " ">> \o py_repr(v.items[i])])
         \o <<"}">>

\* "Normalize summary -> string"
NormalizeText(v) ==
    IF v.t = "str" THEN v.s
    ELSE IF v.t = "dict"
         THEN IF HasKey(v, k_summary) /\ Get(v, k_summary).t = "str"
              THEN Get(v, k_summary).s
              ELSE IF HasKey(v, k_text) /\ Get(v, k_text).t = "str"
                   THEN Get(v, k_text).s
                   ELSE join(<<"\n">>,
                             Strings(SelectSeq(v.items, LAMBDA x : x.t = "str")))
    ELSE py_repr(v)

\* {"Hindi": t, "Arabic": t, "Hebrew": t}
AllLangs(chars) == PDict(Langs, <<PStr(chars), PStr(chars), PStr(chars)>>)

\* re.search(r"\{.*\}", content, re.DOTALL): from the first "{" to the last
\* "}" after it; found is FALSE when there is no match
BraceMatch(chars) ==
    LET opens == {i \in 1..Len(chars) : chars[i] = "{"}
        first == IF opens = {} THEN 0
                 ELSE CHOOSE i \in opens : \A j \in opens : i <= j
        closes == {i \in 1..Len(chars) : chars[i] = "}" /\ i > first}
        last == IF closes = {} THEN 0
                ELSE CHOOSE i \in closes : \A j \in closes : i >= j
    IN  IF opens = {} \/ closes = {}
        THEN [found |-> FALSE, group |-> <<>>]
        ELSE [found |-> TRUE, group |-> SubSeq(chars, first, last)]

\* json.loads(match.group()) of the response; ok is FALSE when there is no
\* match or the decoding raises
DecodeResponse(chars) ==
    LET m == BraceMatch(chars)
    IN  IF m.found THEN json_loads(m.group) ELSE [ok |-> FALSE, val |-> PNone]

RECURSIVE BackfillFrom(_, _, _)
BackfillFrom(d, langs, fill) ==
    IF langs = <<>> THEN d
    ELSE BackfillFrom(IF HasKey(d, Head(langs)) THEN d
                      ELSE SetKey(d, Head(langs), fill),
                      Tail(langs), fill)

\* Mutant: the loop leaves out the last language.
Backfill_without_Hebrew(d, chars) ==
    BackfillFrom(d, <<k_Hindi, k_Arabic>>, PStr(chars))

\* Mutant: a missing key is filled with the empty string.
Backfill_with_empty(d, chars) ==
    BackfillFrom(d, Langs, PStr(<<>>))

\* "Ensure all keys exist": translations[lang] = text for each missing lang
Backfill(d, chars) == BackfillFrom(d, Langs, PStr(chars))

\* Mutant: a response that cannot be decoded yields empty translations.
ParseTranslations_empty_on_failure(chars, original) ==
    LET decoded == DecodeResponse(chars)
    IN  IF decoded.ok /\ decoded.val.t = "dict"
        THEN Backfill(decoded.val, original)
        ELSE AllLangs(<<>>)

\* Lines 54-76: what translate_agent returns for a response text
ParseTranslations(chars, original) ==
    LET decoded == DecodeResponse(chars)
    IN  IF decoded.ok /\ decoded.val.t = "dict"
        THEN Backfill(decoded.val, original)
        ELSE AllLangs(original)

\* ---- inputs of translate_agent and responses of the completion service ----
Quote(chars) == <<"\"">> \o chars \o <<"\"">>
Member(k, v) == Quote(k) \o <<":", " ">> \o Quote(v)
JsonObject(members) == <<"{">> \o join(<<",", " ">>, members) \o <<"}">>

t_Hindi == <<"h", "i", "1">>
t_Arabic == <<"a", "r", "2">>
t_Hebrew == <<"h", "e", "3">>

m_Hindi == Member(k_Hindi, t_Hindi)
m_Arabic == Member(k_Arabic, t_Arabic)
m_Hebrew == Member(k_Hebrew, t_Hebrew)

Prose == <<"S", "u", "r", "e", ":", "\n">>
BracedProse == <<"{", "n", "o", "t", "e", "}", " ">>

\* prose the model may put before or after the JSON object
ProseSamples == {<<>>, Prose, BracedProse, <<" ", "o", "k", " ", ":", "}">>}

FullObject == JsonObject(<<m_Hindi, m_Arabic, m_Hebrew>>)

\* a translation that does not fit one chat message together with the rest
LongTranslation == Rep(<<"u", "p", " ">>, 1299) \o <<"u", "p">>

\* one valid JSON object with all three keys, prose around it
WrappedResponses ==
    {pre \o FullObject \o post : pre \in ProseSamples, post \in ProseSamples}

Responses ==
    WrappedResponses \cup
    { JsonObject(<<m_Hindi, m_Arabic, m_Hebrew>>),
      JsonObject(<<Member(k_Hindi, LongTranslation), m_Arabic, m_Hebrew>>),
      JsonObject(<<m_Hebrew, m_Hindi, m_Arabic,
                   Member(<<"F", "r">>, <<"f", "r">>)>>),
      JsonObject(<<m_Arabic, m_Hebrew>>),
      JsonObject(<<m_Hindi, m_Hebrew>>),
      JsonObject(<<m_Hindi, m_Arabic>>),
      JsonObject(<<m_Hindi>>),
      JsonObject(<<>>),
      JsonObject(<<m_Hindi, m_Arabic, Member(k_Hindi, <<"h", "i", "9">>)>>),
      Prose \o JsonObject(<<m_Hindi, m_Arabic, m_Hebrew>>) \o <<" ", "o", "k">>,
      Prose \o JsonObject(<<m_Hindi, m_Arabic>>),
      BracedProse \o JsonObject(<<m_Hindi, m_Arabic, m_Hebrew>>),
      JsonObject(<<m_Hindi, m_Arabic, m_Hebrew>>) \o BracedProse,
      <<"[">> \o JsonObject(<<m_Arabic>>) \o <<"]">>,
      <<"{">> \o Quote(k_Hindi) \o <<":", " ", "7", ",", " ">>
        \o m_Arabic \o <<",", " ">> \o m_Hebrew \o <<"}">>,
      <<"{">> \o m_Hindi \o <<",">>,
      <<"}", " ", "{">>,
      <<"s", "o", "r", "r", "y">>,
      <<>> }

TranslateInputs ==
    { PStr(<<"u", "p">>),
      PStr(<<" ", "u", "p", " ", "1", "%", "\n">>),
      PStr(<<>>),
      PStr(<<" ", "\n">>),
      PDict(<<k_summary>>, <<PStr(<<"u", "p">>)>>),
      PDict(<<k_text, k_summary>>, <<PStr(<<"t">>), PInt(<<"1">>)>>),
      PDict(<<<<"a">>, <<"b">>, <<"c">>>>,
            <<PStr(<<"x">>), PInt(<<"1">>), PStr(<<"y">>)>>),
      PDict(<<k_summary>>, <<PStr(<<" ">>)>>),
      PDict(<<>>, <<>>),
      PNone,
      PInt(<<"4">>),
      PList(<<PStr(<<"u", "p">>)>>) }

TrIdle ==
    /\ tr_summary = PNone
    /\ tr_pc = "idle"
    /\ text = <<>>
    /\ tr_completion_calls = 0
    /\ content = <<>>
    /\ tr_path = "none"
    /\ translations = PNone

TrInit ==
    /\ tr_summary \in TranslateInputs
    /\ tr_pc = "called"
    /\ text = <<>>
    /\ tr_completion_calls = 0
    /\ content = <<>>
    /\ tr_path = "none"
    /\ translations = PNone

\* Lines 17-33: normalize the input; a blank text returns the empty mapping.
\* Mutant: the test is "if not text", so whitespace-only text is translated.
translate_normalize_unstripped ==
    /\ tr_pc = "called"
    /\ text' = NormalizeText(tr_summary)
    /\ IF text' = <<>>
       THEN /\ tr_pc' = "returned"
            /\ tr_path' = "blank"
            /\ translations' = AllLangs(<<>>)
       ELSE /\ tr_pc' = "completion"
            /\ UNCHANGED <<tr_path, translations>>
    /\ UNCHANGED <<tr_summary, tr_completion_calls, content>>
    /\ UNCHANGED <<orch_vars, sum_vars, dl_vars, sr_vars>>

translate_normalize ==
    /\ tr_pc = "called"
    /\ text' = NormalizeText(tr_summary)
    /\ IF strip(text') = <<>>
       THEN /\ tr_pc' = "returned"
            /\ tr_path' = "blank"
            /\ translations' = AllLangs(<<>>)
       ELSE /\ tr_pc' = "completion"
            /\ UNCHANGED <<tr_path, translations>>
    /\ UNCHANGED <<tr_summary, tr_completion_calls, content>>
    /\ UNCHANGED <<orch_vars, sum_vars, dl_vars, sr_vars>>

\* Lines 46-68: the completion call returns a response; its text is
\* searched, decoded and backfilled; a failure of any of these lands in the
\* except clause, which returns the text under all three keys.
translate_completion_returns ==
    /\ tr_pc = "completion"
    /\ tr_completion_calls' = tr_completion_calls + 1
    /\ content' \in Responses
    /\ translations' = ParseTranslations(content', text)
    /\ tr_path' = IF DecodeResponse(content').ok THEN "try" ELSE "except"
    /\ tr_pc' = "returned"
    /\ UNCHANGED <<tr_summary, text>>
    /\ UNCHANGED <<orch_vars, sum_vars, dl_vars, sr_vars>>

\* Lines 46-76: the completion call raises.
\* Mutant: a failed completion call is tried once more.
translate_completion_raises_retrying ==
    /\ tr_pc = "completion"
    /\ tr_completion_calls' = tr_completion_calls + 1
    /\ IF tr_completion_calls = 0
       THEN UNCHANGED <<translations, tr_path, tr_pc>>
       ELSE /\ translations' = AllLangs(text)
            /\ tr_path' = "except"
            /\ tr_pc' = "returned"
    /\ UNCHANGED <<tr_summary, text, content>>
    /\ UNCHANGED <<orch_vars, sum_vars, dl_vars, sr_vars>>

translate_completion_raises ==
    /\ tr_pc = "completion"
    /\ tr_completion_calls' = tr_completion_calls + 1
    /\ translations' = AllLangs(text)
    /\ tr_path' = "except"
    /\ tr_pc' = "returned"
    /\ UNCHANGED <<tr_summary, text, content>>
    /\ UNCHANGED <<orch_vars, sum_vars, dl_vars, sr_vars>>

TrNext ==
    \/ translate_normalize
    \/ translate_completion_returns
    \/ translate_completion_raises

-----------------------------------------------------------------------------
(* Delivery: send_agent.py                                                *)
(* The pictographs of the message templates are written as one ASCII      *)
(* character per code point: "@" bar chart, "^" rising chart, "&" globe,  *)
(* "%" small diamond, "$" alarm clock, "?" mobile phone, "/" and ";" the  *)
(* two code points of the warning sign.  The grave accent, which cannot   *)
(* be written in a string here, is the character BackTick.                *)

BackTick == "<"

\* line 181: the length above which the assembled message is split
LengthLimit == 4000

\* line 279: default of the max_length parameter of _split_message
max_length == 4000

\* line 192: charts[:5]
ChartLimit == 5

LowerCase == <<"a", "b", "c", "d", "e", "f", "g", "h", "i", "j", "k", "l",
               "m", "n", "o", "p", "q", "r", "s", "t", "u", "v", "w", "x",
               "y", "z">>
UpperCase == <<"A", "B", "C", "D", "E", "F", "G", "H", "I", "J", "K", "L",
               "M", "N", "O", "P", "Q", "R", "S", "T", "U", "V", "W", "X",
               "Y", "Z">>

IsLower(c) == \E i \in 1..26 : LowerCase[i] = c
IsUpper(c) == \E i \in 1..26 : UpperCase[i] = c
IsAlpha(c) == IsLower(c) \/ IsUpper(c)

\* str.lower() and str.upper() for one character
LowerChar(c) ==
    IF IsUpper(c) THEN LowerCase[CHOOSE i \in 1..26 : UpperCase[i] = c] ELSE c
UpperChar(c) ==
    IF IsLower(c) THEN UpperCase[CHOOSE i \in 1..26 : LowerCase[i] = c] ELSE c

\* str.lower()
lower(chars) == [i \in 1..Len(chars) |-> LowerChar(chars[i])]

\* str.title(): a letter is upper-cased after a non-letter, lower-cased
\* after a letter
title(chars) ==
    [i \in 1..Len(chars) |->
        IF i = 1 \/ ~IsAlpha(chars[i - 1])
        THEN UpperChar(chars[i]) ELSE LowerChar(chars[i])]

\* needle in hay
Contains(hay, needle) ==
    \E i \in 1..(Len(hay) - Len(needle) + 1) :
        \A j \in 1..Len(needle) : hay[i + j - 1] = needle[j]

\* str.startswith
StartsWith(chars, prefix) ==
    /\ Len(chars) >= Len(prefix)
    /\ \A j \in 1..Len(prefix) : chars[j] = prefix[j]

DigitChars == <<"0", "1", "2", "3", "4", "5", "6", "7", "8", "9">>

RECURSIVE IntToStr(_)
\* str(n) for a natural number
IntToStr(n) ==
    IF n < 10 THEN <<DigitChars[n + 1]>>
    ELSE IntToStr(n \div 10) \o <<DigitChars[(n % 10) + 1]>>

\* str.split('\n'): the pieces between the newlines, empty pieces included
split_newline(chars) ==
    LET n == Len(chars)
        nl == Ascending({i \in 1..n : chars[i] = "\n"}, 1, n)
        m == Len(nl)
    IN  [k \in 1..(m + 1) |->
            SubSeq(chars,
                   IF k = 1 THEN 1 ELSE nl[k - 1] + 1,
                   IF k = m + 1 THEN n ELSE nl[k] - 1)]

\* line 274: chars_to_escape
chars_to_escape ==
    {"*", "_", BackTick, "[", "]", "(", ")", "~", ">", "#", "+", "-", "=", "|",
     "{", "}", ".", "!"}

RECURSIVE EscapeRange(_, _, _)
EscapeRange(chars, lo, hi) ==
    IF lo > hi THEN <<>>
    ELSE IF lo = hi
         THEN IF chars[lo] \in chars_to_escape
              THEN <<"\\", chars[lo]>> ELSE <<chars[lo]>>
    ELSE EscapeRange(chars, lo, (lo + hi) \div 2)
         \o EscapeRange(chars, (lo + hi) \div 2 + 1, hi)

\* Lines 269-277: each replace puts a backslash before one character of
\* the list; the backslash is not in the list, so the successive replaces
\* amount to one pass over the text.
_escape_markdown(chars) == EscapeRange(chars, 1, Len(chars))

\* Lines 293-297: "%Y-%m-%d %H:%M IST" at some instant
_get_current_time == <<"2", "0", "2", "5", "-", "0", "1", "-", "1", "5", " ",
                       "0", "9", ":", "3", "0", " ", "I", "S", "T">>

RECURSIVE SplitLoop(_, _, _, _, _)
\* Lines 282-288: the loop over the lines
SplitLoop(lines, i, chunks, current, limit) ==
    IF i > Len(lines) THEN <<chunks, current>>
    ELSE IF Len(current) + Len(lines[i]) + 1 <= limit
         THEN SplitLoop(lines, i + 1, chunks,
                        current \o lines[i] \o <<"\n">>, limit)
         ELSE SplitLoop(lines, i + 1,
                        IF strip(current) # <<>>
                        THEN Append(chunks, strip(current)) ELSE chunks,
                        lines[i] \o <<"\n">>, limit)

\* Mutant: the message is cut every max_length characters.
_split_message_fixed_width(message) ==
    [k \in 1..((Len(message) + max_length - 1) \div max_length) |->
        SubSeq(message, (k - 1) * max_length + 1,
               IF k * max_length < Len(message) THEN k * max_length
               ELSE Len(message))]

\* Lines 279-291
_split_message(message) ==
    LET done == SplitLoop(split_newline(message), 1, <<>>, <<>>, max_length)
        chunks == IF strip(done[2]) # <<>>
                  THEN Append(done[1], strip(done[2])) ELSE done[1]
    IN  IF chunks # <<>> THEN chunks ELSE <<<<"E", "m", "p", "t", "y", " ",
                                              "m", "e", "s", "s", "a", "g",
                                              "e">>>>

\* Line 184: f"Part {i+1}/{len(chunks)}:\n\n{chunk}"
PartLabel(i, n) ==
    <<"P", "a", "r", "t", " ">> \o IntToStr(i) \o <<"/">> \o IntToStr(n) \o <<":", "\n", "\n">>

\* Lines 180-186: the texts handed to _send_telegram_message, in order
MessageTexts(message) ==
    IF Len(message) > LengthLimit
    THEN LET chunks == _split_message(message)
         IN  [i \in 1..Len(chunks) |->
                PartLabel(i, Len(chunks)) \o chunks[i]]
    ELSE <<message>>

k_charts == <<"c", "h", "a", "r", "t", "s">>
k_translations == <<"t", "r", "a", "n", "s", "l", "a", "t", "i", "o", "n", "s">>
k_raw == <<"r", "a", "w">>

\* bool(v)
Truthy(v) ==
    IF v.t = "str" THEN v.s # <<>>
    ELSE IF v.t = "int" THEN \E i \in 1..Len(v.s) : v.s[i] \notin {"0", "-"}
    ELSE IF v.t = "none" THEN FALSE
    ELSE IF v.t = "list" THEN v.items # <<>>
    ELSE v.keys # <<>>

\* str(v)
py_str(v) == IF v.t = "str" THEN v.s ELSE py_repr(v)

\* Line 166: "if text and text.strip()" raises for a true value that is
\* not a string
TranslationRaises(d) ==
    \E i \in 1..Len(d.items) : Truthy(d.items[i]) /\ d.items[i].t # "str"

\* Lines 165-168: one message part for every translation with visible text
TranslationParts(d) ==
    LET shown == SelectSeq([i \in 1..Len(d.items) |->
                               [lang |-> d.keys[i], text |-> d.items[i]]],
                           LAMBDA x : x.text.t = "str"
                                      /\ strip(x.text.s) # <<>>)
    IN  [i \in 1..Len(shown) |->
            <<"\n", "%", " ", "*">> \o title(shown[i].lang) \o <<":", "*", "\n">>
            \o _escape_markdown(strip(shown[i].text.s))]

\* Lines 151-176: message_parts for a structured report
message_parts(data) ==
    LET summary_text == strip(Get(data, k_summary).s)
        trs == Get(data, k_translations)
        charts == Get(data, k_charts)
    IN  <<<<"@", " ", "*", "D", "A", "I", "L", "Y", " ", "M", "A", "R", "K",
            "E", "T", " ", "S", "U", "M", "M", "A", "R", "Y", "*">>, Rep(<<"=">>, 30)>>
        \o (IF summary_text # <<>>
            THEN <<<<"\n", "^", " ", "*", "M", "a", "r", "k", "e", "t", " ",
                     "O", "v", "e", "r", "v", "i", "e", "w", ":", "*", "\n">>
                   \o _escape_markdown(summary_text)>>
            ELSE <<>>)
        \o (IF Truthy(trs)
            THEN <<<<"\n", "&", " ", "*", "T", "r", "a", "n", "s", "l", "a",
                     "t", "i", "o", "n", "s", " ", "A", "v", "a", "i", "l",
                     "a", "b", "l", "e", ":", "*">>>> \o TranslationParts(trs)
            ELSE <<>>)
        \o (IF Truthy(charts)
            THEN <<<<"\n", "@", " ", "*", "M", "a", "r", "k", "e", "t", " ",
                     "C", "h", "a", "r", "t", "s", ":", "*", " ">> \o IntToStr(Len(charts.items))
                   \o <<" ", "c", "h", "a", "r", "t", "s", " ", "a", "t",
                        "t", "a", "c", "h", "e", "d", " ", "b", "e", "l",
                        "o", "w">>>>
            ELSE <<>>)
        \o <<<<"\n", "$", " ", "*", "G", "e", "n", "e", "r", "a", "t", "e",
               "d", ":", "*", " ">> \o _get_current_time,
             <<"?", " ", "*", "D", "a", "i", "l", "y", " ", "F", "i", "n",
               "a", "n", "c", "i", "a", "l", " ", "S", "u", "m", "m", "a",
               "r", "y", " ", "B", "o", "t", "*">>>>

\* Line 178
FullMessage(data) == join(<<"\n">>, message_parts(data))

\* Line 210: the text of the error notification
ErrorText(err) ==
    <<"/", ";", " ", "*", "D", "a", "i", "l", "y", " ", "S", "u", "m", "m",
      "a", "r", "y", " ", "E", "r", "r", "o", "r", "*", "\n", "\n", BackTick>> \o _escape_markdown(err)
    \o <<BackTick, "\n", "\n", "$", " ">> \o _get_current_time

\* type(v).__name__
TypeName(v) ==
    IF v.t = "str" THEN <<"s", "t", "r">>
    ELSE IF v.t = "int" THEN <<"i", "n", "t">>
    ELSE IF v.t = "none" THEN <<"N", "o", "n", "e", "T", "y", "p", "e">>
    ELSE IF v.t = "list" THEN <<"l", "i", "s", "t">>
    ELSE <<"d", "i", "c", "t">>

\* the outcome of a call: a value, or the message of the exception raised
Returns(v) == [ok |-> TRUE, val |-> v, err |-> <<>>, unordered |-> FALSE]
Raises(msg) == [ok |-> FALSE, val |-> PNone, err |-> msg, unordered |-> FALSE]

NotIterable(v) == <<"'">> \o TypeName(v) \o <<"'", " ", "o", "b", "j", "e",
                                              "c", "t", " ", "i", "s", " ",
                                              "n", "o", "t", " ", "i", "t",
                                              "e", "r", "a", "b", "l", "e">>

\* list(v)
ListOf(v) ==
    IF v.t = "list" THEN Returns(v)
    ELSE IF v.t = "str"
         THEN Returns(PList([i \in 1..Len(v.s) |-> PStr(<<v.s[i]>>)]))
    ELSE IF v.t = "dict"
         THEN Returns(PList([i \in 1..Len(v.keys) |-> PStr(v.keys[i])]))
    ELSE Raises(NotIterable(v))

\* len(v) of an element of a dictionary update sequence; -1: not a sequence
PairLen(v) ==
    IF v.t = "str" THEN Len(v.s)
    ELSE IF v.t = "list" THEN Len(v.items)
    ELSE IF v.t = "dict" THEN Len(v.keys)
    ELSE 0 - 1

\* the i-th member of a two-element str, list or dict
PairItem(v, i) ==
    IF v.t = "str" THEN PStr(<<v.s[i]>>)
    ELSE IF v.t = "list" THEN v.items[i]
    ELSE PStr(v.keys[i])

RECURSIVE DictFromPairs(_, _, _)
\* dict(list): every element has to be a pair with a hashable first member;
\* a key that is a number or None is kept as its text
DictFromPairs(elems, i, acc) ==
    IF i > Len(elems) THEN Returns(acc)
    ELSE IF PairLen(elems[i]) < 0
         THEN Raises(<<"c", "a", "n", "n", "o", "t", " ", "c", "o", "n", "v",
                       "e", "r", "t", " ", "d", "i", "c", "t", "i", "o", "n",
                       "a", "r", "y", " ", "u", "p", "d", "a", "t", "e", " ",
                       "s", "e", "q", "u", "e", "n", "c", "e", " ", "e", "l",
                       "e", "m", "e", "n", "t", " ", "#">>
                     \o IntToStr(i - 1) \o <<" ", "t", "o", " ", "a", " ",
                                             "s", "e", "q", "u", "e", "n",
                                             "c", "e">>)
    ELSE IF PairLen(elems[i]) # 2
         THEN Raises(<<"d", "i", "c", "t", "i", "o", "n", "a", "r", "y", " ",
                       "u", "p", "d", "a", "t", "e", " ", "s", "e", "q", "u",
                       "e", "n", "c", "e", " ", "e", "l", "e", "m", "e", "n",
                       "t", " ", "#">>
                     \o IntToStr(i - 1) \o <<" ", "h", "a", "s", " ", "l",
                                             "e", "n", "g", "t", "h", " ">>
                     \o IntToStr(PairLen(elems[i])) \o <<";", " ", "2", " ", "i",
                                                         "s", " ", "r", "e", "q",
                                                         "u", "i", "r", "e", "d">>)
    ELSE IF PairItem(elems[i], 1).t \in {"list", "dict"}
         THEN Raises(<<"u", "n", "h", "a", "s", "h", "a", "b", "l", "e", " ",
                       "t", "y", "p", "e", ":", " ", "'">>
                     \o TypeName(PairItem(elems[i], 1)) \o <<"'">>)
    ELSE DictFromPairs(elems, i + 1,
                       SetKey(acc, py_str(PairItem(elems[i], 1)),
                              PairItem(elems[i], 2)))

\* dict(v)
DictOf(v) ==
    IF v.t = "dict" THEN Returns(v)
    ELSE IF v.t = "list" THEN DictFromPairs(v.items, 1, PDict(<<>>, <<>>))
    ELSE IF v.t = "str"
         THEN DictFromPairs([i \in 1..Len(v.s) |-> PStr(<<v.s[i]>>)], 1,
                            PDict(<<>>, <<>>))
    ELSE Raises(NotIterable(v))

\* a structured report
Structured(summary_text, charts, trs) ==
    PDict(<<k_summary, k_charts, k_translations>>,
          <<PStr(summary_text), charts, trs>>)

\* data.get(k, default)
GetOr(d, k, default) == IF HasKey(d, k) THEN Get(d, k) ELSE default

\* Lines 75-79: the report read from the domain keys
FromDomainKeys(data) ==
    LET charts == ListOf(GetOr(data, k_charts, PList(<<>>)))
        trs == DictOf(GetOr(data, k_translations, PDict(<<>>, <<>>)))
    IN  IF ~charts.ok THEN charts
        ELSE IF ~trs.ok THEN trs
        ELSE Returns(Structured(py_str(GetOr(data, k_summary, PStr(<<>>))),
                                charts.val, trs.val))

\* Line 87: the test on one value of the mapping
NestedCandidate(value) ==
    /\ value.t \in {"dict", "list", "str"}
    /\ \E term \in {<<"s", "u", "m", "m", "a", "r", "y">>, <<"c", "h", "a", "r", "t">>, <<"t", "r", "a", "n", "s", "l",
                                              "a", "t", "i", "o", "n">>} :
          Contains(lower(py_str(value)), term)

\* Line 118: the financial keywords
FinancialKeywords ==
    {<<"m", "a", "r", "k", "e", "t">>, <<"s", "t", "o", "c", "k">>, <<"t", "r", "a", "d", "i", "n", "g">>, <<"f", "i", "n", "a", "n", "c", "i",
                                           "a", "l">>, <<"d", "o", "w">>, <<"n", "a", "s", "d", "a", "q">>,
     <<"s", "&", "p">>, <<"p", "r", "i", "c", "e">>}

\* seq[:n]
Take(seq, n) == SubSeq(seq, 1, IF Len(seq) < n THEN Len(seq) ELSE n)

\* Lines 118-121: up to ten stripped lines longer than 20 characters that
\* do not start with "http"
ExtractSummary(chars) ==
    IF \E k \in FinancialKeywords : Contains(lower(chars), k)
    THEN LET lines == split_newline(chars)
             stripped == [i \in 1..Len(lines) |-> strip(lines[i])]
         IN  join(<<"\n">>,
                  Take(SelectSeq(stripped,
                                 LAMBDA l : Len(l) > 20
                                            /\ ~StartsWith(l, <<"h", "t", "t", "p">>)),
                       10))
    ELSE <<>>

\* Line 124: the characters a chart URL may not contain
UrlChar(c) ==
    ~IsSpace(c)
    /\ c \notin {"<", ">", "\"", "{", "}", "|", "\\", "^", BackTick, "[", "]"}

\* the text matches the literal at position p, letter case ignored
LiteralAt(chars, p, lit) ==
    /\ p + Len(lit) - 1 <= Len(chars)
    /\ \A j \in 1..Len(lit) : LowerChar(chars[p + j - 1]) = lit[j]

\* Line 124: https?://
SchemeLen(chars, i) ==
    IF LiteralAt(chars, i, <<"h", "t", "t", "p", "s", ":", "/", "/">>) THEN 8
    ELSE IF LiteralAt(chars, i, <<"h", "t", "t", "p", ":", "/", "/">>) THEN 7
    ELSE 0

\* the last index of the run of digits that starts at p (p - 1 if none)
RECURSIVE DigitRunEnd(_, _)
DigitRunEnd(chars, p) ==
    IF p <= Len(chars) /\ IsDigit(chars[p])
    THEN DigitRunEnd(chars, p + 1) ELSE p - 1

\* Line 124: (?:\.(?:jpg|jpeg|png|gif|webp|svg)|\&text=Chart\d*) at p;
\* the index of the last character matched, 0 if the suffix does not match
SuffixEnd(chars, p) ==
    IF LiteralAt(chars, p, <<".", "j", "p", "g">>) THEN p + 3
    ELSE IF LiteralAt(chars, p, <<".", "j", "p", "e", "g">>) THEN p + 4
    ELSE IF LiteralAt(chars, p, <<".", "p", "n", "g">>) THEN p + 3
    ELSE IF LiteralAt(chars, p, <<".", "g", "i", "f">>) THEN p + 3
    ELSE IF LiteralAt(chars, p, <<".", "w", "e", "b", "p">>) THEN p + 4
    ELSE IF LiteralAt(chars, p, <<".", "s", "v", "g">>) THEN p + 3
    ELSE IF LiteralAt(chars, p, <<"&", "t", "e", "x", "t", "=", "c", "h",
                                  "a", "r", "t">>)
         THEN DigitRunEnd(chars, p + 11)
    ELSE 0

\* the index of the last character of the match of the chart pattern that
\* starts at i, 0 if there is none: the character class is greedy and gives
\* characters back until the suffix matches
UrlMatchEnd(chars, i) ==
    LET b == i + SchemeLen(chars, i)
        starts == {p \in (b + 1)..Len(chars) :
                      /\ \A j \in b..(p - 1) : UrlChar(chars[j])
                      /\ SuffixEnd(chars, p) > 0}
    IN  IF SchemeLen(chars, i) = 0 \/ starts = {} THEN 0
        ELSE SuffixEnd(chars, CHOOSE p \in starts : \A o \in starts : o <= p)

RECURSIVE FindUrls(_, _, _)
\* Line 125: re.findall, the matches from left to right without overlap
FindUrls(chars, from, acc) ==
    LET hits == {i \in from..Len(chars) : UrlMatchEnd(chars, i) > 0}
        first == CHOOSE i \in hits : \A o \in hits : i <= o
    IN  IF hits = {} THEN acc
        ELSE FindUrls(chars, UrlMatchEnd(chars, first) + 1,
                      Append(acc, SubSeq(chars, first,
                                         UrlMatchEnd(chars, first))))

\* the first occurrences of a sequence's members
Distinct(seq) ==
    SelectSeq([i \in 1..Len(seq) |->
                  [v |-> seq[i],
                   first |-> \A j \in 1..(i - 1) : seq[j] # seq[i]]],
              LAMBDA x : x.first)

\* Lines 130-132, first pattern of a language, e.g.
\* hindi[:\s]*([^A-Za-z\n]+): the index of the last character of the match
\* that starts at i, 0 if there is none
LangMatchEnd(chars, i, word) ==
    LET j == i + Len(word)
        \* the separators [:\s]* may reach up to q
        seps == {q \in (j - 1)..Len(chars) :
                    \A x \in j..q : chars[x] = ":" \/ IsSpace(chars[x])}
        grp(x) == x <= Len(chars) /\ ~IsAlpha(chars[x]) /\ chars[x] # "\n"
        \* where the group can start: right after some run of separators
        begins == {k \in j..Len(chars) : (k - 1) \in seps /\ grp(k)}
        k0 == CHOOSE k \in begins : \A o \in begins : o <= k
        ends == {z \in k0..Len(chars) : \A x \in k0..z : grp(x)}
    IN  IF ~LiteralAt(chars, i, word) \/ begins = {} THEN 0
        ELSE CHOOSE z \in ends : \A o \in ends : o <= z

\* Lines 135-140 for one language: the stripped match of the first pattern
\* at its leftmost position, <<>> if the pattern does not match.  The other
\* two patterns of a language are words outside ASCII.
LangMatch(chars, word) ==
    LET hits == {i \in 1..Len(chars) : LangMatchEnd(chars, i, word) > 0}
        first == CHOOSE i \in hits : \A o \in hits : i <= o
    IN  IF hits = {} THEN <<>>
        ELSE strip(SubSeq(chars, first, LangMatchEnd(chars, first, word)))

\* Lines 128-140
ExtractTranslations(chars) ==
    LET found == SelectSeq(<<[lang |-> k_Hindi, word |-> <<"h", "i", "n", "d", "i">>],
                             [lang |-> k_Arabic, word |-> <<"a", "r", "a", "b", "i", "c">>],
                             [lang |-> k_Hebrew, word |-> <<"h", "e", "b", "r", "e", "w">>]>>,
                           LAMBDA x : LangMatch(chars, x.word) # <<>>)
    IN  PDict([i \in 1..Len(found) |-> found[i].lang],
              [i \in 1..Len(found) |-> PStr(LangMatch(chars, found[i].word))])

\* Lines 112-142.  The charts are list(set(...)): their order is not fixed
\* by the code, which the result records as unordered.
_extract_from_complex_data(data) ==
    LET chars == py_str(data)
        urls == Distinct(FindUrls(chars, 1, <<>>))
    IN  [ok |-> TRUE,
         val |-> Structured(ExtractSummary(chars),
                            PList([i \in 1..Len(urls) |-> PStr(urls[i].v)]),
                            ExtractTranslations(chars)),
         err |-> <<>>,
         unordered |-> TRUE]

RECURSIVE _parse_input_data(_)
\* Lines 70-109
\* Mutant: "raw" is looked for before the domain keys.
_parse_input_data_raw_first(data) ==
    IF data.t = "dict" /\ HasKey(data, k_raw)
    THEN _parse_input_data(Get(data, k_raw))
    ELSE IF data.t = "dict"
       /\ (HasKey(data, k_summary) \/ HasKey(data, k_charts)
           \/ HasKey(data, k_translations))
    THEN FromDomainKeys(data)
    ELSE IF data.t = "dict"
            /\ \E i \in 1..Len(data.items) : NestedCandidate(data.items[i])
    THEN _parse_input_data(
             data.items[CHOOSE i \in 1..Len(data.items) :
                           /\ NestedCandidate(data.items[i])
                           /\ \A j \in 1..(i - 1) :
                                 ~NestedCandidate(data.items[j])])
    ELSE IF data.t = "str" /\ ~json_loads(data.s).ok
    THEN Returns(Structured(data.s, PList(<<>>), PDict(<<>>, <<>>)))
    ELSE IF data.t = "str" /\ json_loads(data.s).val.t = "dict"
    THEN _parse_input_data(json_loads(data.s).val)
    ELSE IF data.t = "list"
    THEN _extract_from_complex_data(data)
    ELSE Returns(Structured(py_str(data), PList(<<>>), PDict(<<>>, <<>>)))

_parse_input_data(data) ==
    IF data.t = "dict"
       /\ (HasKey(data, k_summary) \/ HasKey(data, k_charts)
           \/ HasKey(data, k_translations))
    THEN FromDomainKeys(data)
    ELSE IF data.t = "dict" /\ HasKey(data, k_raw)
    THEN _parse_input_data(Get(data, k_raw))
    ELSE IF data.t = "dict"
            /\ \E i \in 1..Len(data.items) : NestedCandidate(data.items[i])
    THEN _parse_input_data(
             data.items[CHOOSE i \in 1..Len(data.items) :
                           /\ NestedCandidate(data.items[i])
                           /\ \A j \in 1..(i - 1) :
                                 ~NestedCandidate(data.items[j])])
    ELSE IF data.t = "str" /\ ~json_loads(data.s).ok
    THEN Returns(Structured(data.s, PList(<<>>), PDict(<<>>, <<>>)))
    ELSE IF data.t = "str" /\ json_loads(data.s).val.t = "dict"
    THEN _parse_input_data(json_loads(data.s).val)
    ELSE IF data.t = "list"
    THEN _extract_from_complex_data(data)
    ELSE Returns(Structured(py_str(data), PList(<<>>), PDict(<<>>, <<>>)))

\* str(e) of a failed HTTP post
HttpError == <<"C", "l", "i", "e", "n", "t", " ", "e", "r", "r", "o", "r",
               " ", "'", "4", "0", "0", " ", "B", "a", "d", " ", "R", "e",
               "q", "u", "e", "s", "t", "'">>

\* Line 166: str(e) of the AttributeError for the first translation value
\* that is true and no string
StripAttributeError(d) ==
    LET i == CHOOSE i \in 1..Len(d.items) :
                 /\ Truthy(d.items[i]) /\ d.items[i].t # "str"
                 /\ \A j \in 1..(i - 1) :
                       ~(Truthy(d.items[j]) /\ d.items[j].t # "str")
    IN  <<"'">> \o TypeName(d.items[i])
        \o <<"'", " ", "o", "b", "j", "e", "c", "t", " ", "h", "a", "s", " ",
             "n", "o", " ", "a", "t", "t", "r", "i", "b", "u", "t", "e", " ",
             "'", "s", "t", "r", "i", "p", "'">>

\* Mutant: the guard only recognises a report that is absent.
NothingToSend_when_absent(sd) == sd.t = "none"

\* Mutant: translations whose values are all blank count as none.
NothingToSend_blank_values(sd) ==
    /\ ~Truthy(Get(sd, k_summary))
    /\ ~Truthy(Get(sd, k_charts))
    /\ \A i \in 1..Len(Get(sd, k_translations).items) :
          LET v == Get(sd, k_translations).items[i]
          IN  v.t = "str" /\ strip(v.s) = <<>>

\* Line 41: not any([summary, charts, translations])
NothingToSend(sd) ==
    /\ ~Truthy(Get(sd, k_summary))
    /\ ~Truthy(Get(sd, k_charts))
    /\ ~Truthy(Get(sd, k_translations))

NoDataStatus == <<"N", "o", " ", "d", "a", "t", "a", " ", "a", "v", "a", "i",
                  "l", "a", "b", "l", "e", " ", "t", "o", " ", "s", "e", "n",
                  "d">>
\* Line 51
SuccessStatus(n) == <<"S", "u", "c", "c", "e", "s", "s", "f", "u", "l", "l",
                      "y", " ", "s", "e", "n", "t", " ", "t", "o", " ", "T",
                      "e", "l", "e", "g", "r", "a", "m", "!", " ", "C", "h",
                      "a", "r", "t", "s", " ", "s", "e", "n", "t", ":", " ">> \o IntToStr(n)
\* Line 56
ErrorStatus(err) == <<"E", "r", "r", "o", "r", " ", "s", "e", "n", "d", "i",
                      "n", "g", " ", "t", "o", " ", "T", "e", "l", "e", "g",
                      "r", "a", "m", ":", " ">> \o err

\* the orders list(set(...)) can give the charts of a structured report
RECURSIVE Orders(_)
Orders(elems) ==
    IF elems = <<>> THEN {<<>>}
    ELSE UNION {{<<elems[i]>> \o rest :
                    rest \in Orders([j \in 1..(Len(elems) - 1) |->
                                        IF j < i THEN elems[j]
                                        ELSE elems[j + 1]])} :
                i \in 1..Len(elems)}

\* the structured reports a call of _parse_input_data can return
StructuredChoices(r) ==
    IF r.unordered
    THEN {Structured(Get(r.val, k_summary).s, PList(o),
                     Get(r.val, k_translations)) :
             o \in Orders(Get(r.val, k_charts).items)}
    ELSE {r.val}

\* one HTTP post
Post(method, purpose, index, body, photo, mode, ok) ==
    [method |-> method, purpose |-> purpose, index |-> index, text |-> body,
     photo |-> photo, parse_mode |-> mode, ok |-> ok]

\* Lines 28-46 and 149-182: from the call up to the first HTTP post.
\* Mutant: the escaped summary is written back into the report received.
send_sync_start_escaping_in_place ==
    /\ dl_pc = "called"
    /\ LET r == _parse_input_data(dl_data)
       IN  IF ~r.ok
           THEN /\ dl_error' = r.err
                /\ dl_pc' = "error"
                /\ UNCHANGED <<structured_data, full_message, outbox,
                               dl_result>>
           ELSE \E sd \in StructuredChoices(r) :
                /\ structured_data' = sd
                /\ IF NothingToSend(sd)
                   THEN /\ dl_pc' = "returned"
                        /\ dl_result' = NoDataStatus
                        /\ UNCHANGED <<full_message, outbox, dl_error>>
                   ELSE IF TranslationRaises(Get(sd, k_translations))
                   THEN /\ dl_error' =
                              StripAttributeError(Get(sd, k_translations))
                        /\ dl_pc' = "error"
                        /\ UNCHANGED <<full_message, outbox, dl_result>>
                   ELSE /\ full_message' = FullMessage(sd)
                        /\ outbox' = MessageTexts(full_message')
                        /\ dl_pc' = "message"
                        /\ UNCHANGED <<dl_error, dl_result>>
    /\ out_i' = 1
    /\ dl_data' = IF dl_data.t = "dict" /\ HasKey(dl_data, k_summary)
                  THEN SetKey(dl_data, k_summary,
                          PStr(_escape_markdown(Get(dl_data, k_summary).s)))
                  ELSE dl_data
    /\ UNCHANGED <<http_log, chart_i, charts_sent>>
    /\ UNCHANGED <<orch_vars, sum_vars, tr_vars, sr_vars>>

send_sync_start ==
    /\ dl_pc = "called"
    /\ LET r == _parse_input_data(dl_data)
       IN  IF ~r.ok
           THEN /\ dl_error' = r.err
                /\ dl_pc' = "error"
                /\ UNCHANGED <<structured_data, full_message, outbox,
                               dl_result>>
           ELSE \E sd \in StructuredChoices(r) :
                /\ structured_data' = sd
                /\ IF NothingToSend(sd)
                   THEN /\ dl_pc' = "returned"
                        /\ dl_result' = NoDataStatus
                        /\ UNCHANGED <<full_message, outbox, dl_error>>
                   ELSE IF TranslationRaises(Get(sd, k_translations))
                   THEN /\ dl_error' =
                              StripAttributeError(Get(sd, k_translations))
                        /\ dl_pc' = "error"
                        /\ UNCHANGED <<full_message, outbox, dl_result>>
                   ELSE /\ full_message' = FullMessage(sd)
                        /\ outbox' = MessageTexts(full_message')
                        /\ dl_pc' = "message"
                        /\ UNCHANGED <<dl_error, dl_result>>
    /\ out_i' = 1
    /\ UNCHANGED <<dl_data, http_log, chart_i, charts_sent>>
    /\ UNCHANGED <<orch_vars, sum_vars, tr_vars, sr_vars>>

\* the text _send_telegram_message was called with: a part of the report,
\* or the error notification of line 210
MessageText ==
    IF dl_pc \in {"error", "error_plain"} THEN ErrorText(dl_error)
    ELSE outbox[out_i]

\* what follows a text message that was sent
AfterMessageSent ==
    IF dl_pc \in {"error", "error_plain"}
    THEN /\ dl_pc' = "returned"
         /\ dl_result' = ErrorStatus(dl_error)
         /\ UNCHANGED <<out_i, outbox, dl_error>>
    ELSE /\ out_i' = out_i + 1
         /\ dl_pc' = IF out_i = Len(outbox) THEN "charts" ELSE "message"
         /\ UNCHANGED <<outbox, dl_error, dl_result>>

\* Lines 223-236: the post with parse_mode Markdown.
_send_telegram_message_markdown ==
    /\ dl_pc \in {"message", "error"}
    /\ \E ok \in BOOLEAN :
        /\ http_log' = Append(http_log,
                              Post("sendMessage",
                                   IF dl_pc = "error" THEN "error" ELSE "report",
                                   IF dl_pc = "error" THEN 1 ELSE out_i,
                                   MessageText, <<>>, "Markdown", ok))
        /\ IF ok
           THEN AfterMessageSent
           ELSE /\ dl_pc' = IF dl_pc = "error" THEN "error_plain"
                            ELSE "message_plain"
                /\ UNCHANGED <<out_i, outbox, dl_error, dl_result>>
    /\ UNCHANGED <<dl_data, structured_data, full_message, chart_i,
                   charts_sent>>
    /\ UNCHANGED <<orch_vars, sum_vars, tr_vars, sr_vars>>

\* Mutant: a second failure is only printed, the send returns normally.
_send_telegram_message_plain_swallowing ==
    /\ dl_pc \in {"message_plain", "error_plain"}
    /\ \E ok \in BOOLEAN :
        /\ http_log' = Append(http_log,
                              Post("sendMessage",
                                   IF dl_pc = "error_plain" THEN "error"
                                   ELSE "report",
                                   IF dl_pc = "error_plain" THEN 1 ELSE out_i,
                                   MessageText, <<>>, "None", ok))
        /\ AfterMessageSent
    /\ UNCHANGED <<dl_data, structured_data, full_message, chart_i,
                   charts_sent>>
    /\ UNCHANGED <<orch_vars, sum_vars, tr_vars, sr_vars>>

\* Mutant: a part that could not be sent ends the call at once, without
\* the error notification.
_send_telegram_message_plain_unnotified ==
    /\ dl_pc \in {"message_plain", "error_plain"}
    /\ \E ok \in BOOLEAN :
        /\ http_log' = Append(http_log,
                              Post("sendMessage",
                                   IF dl_pc = "error_plain" THEN "error"
                                   ELSE "report",
                                   IF dl_pc = "error_plain" THEN 1 ELSE out_i,
                                   MessageText, <<>>, "None", ok))
        /\ IF ok
           THEN AfterMessageSent
           ELSE /\ dl_pc' = "returned"
                /\ dl_error' = IF dl_pc = "error_plain" THEN dl_error
                                ELSE HttpError
                /\ dl_result' = ErrorStatus(dl_error')
                /\ UNCHANGED <<out_i, outbox>>
    /\ UNCHANGED <<dl_data, structured_data, full_message, chart_i,
                   charts_sent>>
    /\ UNCHANGED <<orch_vars, sum_vars, tr_vars, sr_vars>>

\* Lines 237-246: the post with parse_mode None, after the first one failed.
\* A second failure is raised: to send_sync's handler (lines 55-62) for a
\* part of the report, to the handler of lines 211-212 for the notification.
_send_telegram_message_plain ==
    /\ dl_pc \in {"message_plain", "error_plain"}
    /\ \E ok \in BOOLEAN :
        /\ http_log' = Append(http_log,
                              Post("sendMessage",
                                   IF dl_pc = "error_plain" THEN "error"
                                   ELSE "report",
                                   IF dl_pc = "error_plain" THEN 1 ELSE out_i,
                                   MessageText, <<>>, "None", ok))
        /\ IF ok
           THEN AfterMessageSent
           ELSE IF dl_pc = "error_plain"
           THEN /\ dl_pc' = "returned"
                /\ dl_result' = ErrorStatus(dl_error)
                /\ UNCHANGED <<out_i, outbox, dl_error>>
           ELSE /\ dl_pc' = "error"
                /\ dl_error' = HttpError
                /\ UNCHANGED <<out_i, outbox, dl_result>>
    /\ UNCHANGED <<dl_data, structured_data, full_message, chart_i,
                   charts_sent>>
    /\ UNCHANGED <<orch_vars, sum_vars, tr_vars, sr_vars>>

\* Line 192: charts[:5]
ChartsToSend == Take(Get(structured_data, k_charts).items, ChartLimit)

\* Line 193
ValidChartUrl(url) ==
    /\ url.t = "str"
    /\ (StartsWith(url.s, <<"h", "t", "t", "p", ":", "/", "/">>) \/ StartsWith(url.s, <<"h", "t", "t", "p", "s",
                                                              ":", "/", "/">>))

\* Lines 193-195: an invalid reference is skipped.
chart_skip_invalid ==
    /\ dl_pc = "charts"
    /\ chart_i <= Len(ChartsToSend)
    /\ ~ValidChartUrl(ChartsToSend[chart_i])
    /\ chart_i' = chart_i + 1
    /\ UNCHANGED <<dl_data, dl_pc, structured_data, full_message, outbox,
                   out_i, http_log, charts_sent, dl_error, dl_result>>
    /\ UNCHANGED <<orch_vars, sum_vars, tr_vars, sr_vars>>

\* Mutant: the first photo post that fails ends the loop.
_send_telegram_photo_stop_on_failure ==
    /\ dl_pc = "charts"
    /\ chart_i <= Len(ChartsToSend)
    /\ ValidChartUrl(ChartsToSend[chart_i])
    /\ \E ok \in BOOLEAN :
        /\ http_log' = Append(http_log,
                              Post("sendPhoto", "chart", chart_i,
                                   <<"@", " ", "M", "a", "r", "k", "e", "t",
                                     " ", "C", "h", "a", "r", "t", " ">>
                                   \o IntToStr(chart_i)
                                   \o <<"\n">> \o _get_current_time,
                                   ChartsToSend[chart_i].s, "Markdown", ok))
        /\ charts_sent' = IF ok THEN charts_sent + 1 ELSE charts_sent
        /\ chart_i' = IF ok THEN chart_i + 1 ELSE Len(ChartsToSend) + 1
    /\ UNCHANGED <<dl_data, dl_pc, structured_data, full_message, outbox,
                   out_i, dl_error, dl_result>>
    /\ UNCHANGED <<orch_vars, sum_vars, tr_vars, sr_vars>>

\* Lines 197-202 and 249-262: one photo post; its failure is caught.
_send_telegram_photo ==
    /\ dl_pc = "charts"
    /\ chart_i <= Len(ChartsToSend)
    /\ ValidChartUrl(ChartsToSend[chart_i])
    /\ \E ok \in BOOLEAN :
        /\ http_log' = Append(http_log,
                              Post("sendPhoto", "chart", chart_i,
                                   <<"@", " ", "M", "a", "r", "k", "e", "t",
                                     " ", "C", "h", "a", "r", "t", " ">> \o IntToStr(chart_i)
                                   \o <<"\n">> \o _get_current_time,
                                   ChartsToSend[chart_i].s, "Markdown", ok))
        /\ charts_sent' = IF ok THEN charts_sent + 1 ELSE charts_sent
    /\ chart_i' = chart_i + 1
    /\ UNCHANGED <<dl_data, dl_pc, structured_data, full_message, outbox,
                   out_i, dl_error, dl_result>>
    /\ UNCHANGED <<orch_vars, sum_vars, tr_vars, sr_vars>>

\* Lines 203 and 51-53: the loop is over, the success status is returned.
send_sync_return ==
    /\ dl_pc = "charts"
    /\ chart_i > Len(ChartsToSend)
    /\ dl_pc' = "returned"
    /\ dl_result' = SuccessStatus(charts_sent)
    /\ UNCHANGED <<dl_data, structured_data, full_message, outbox, out_i,
                   http_log, chart_i, charts_sent, dl_error>>
    /\ UNCHANGED <<orch_vars, sum_vars, tr_vars, sr_vars>>

DlNext ==
    \/ send_sync_start
    \/ _send_telegram_message_markdown
    \/ _send_telegram_message_plain
    \/ chart_skip_invalid
    \/ _send_telegram_photo
    \/ send_sync_return

\* ---- the reports handed to send_agent ----

\* a line of n letters
Line(n) == Rep(<<"a">>, n)

\* k lines of n letters each
Lines(k, n) == join(<<"\n">>, [i \in 1..k |-> Line(n)])

ChartUrl(i) == PStr(<<"h", "t", "t", "p", "s", ":", "/", "/", "x", ".", "i",
                      "o", "/", "c">> \o IntToStr(i) \o <<".", "p", "n", "g">>)
InvalidRef == PStr(<<"f", "t", "p", ":", "/", "/", "x", ".", "i", "o", "/",
                     "c", ".", "p", "n", "g">>)

\* n chart references, the one at position p (if any) without http(s)
ChartsWithInvalidAt(n, p) ==
    [i \in 1..n |-> IF i = p THEN InvalidRef ELSE ChartUrl(i)]

SampleTranslations ==
    PDict(Langs, <<PStr(t_Hindi), PStr(t_Arabic), PStr(t_Hebrew)>>)

NoCharts == PList(<<>>)
NoTrs == PDict(<<>>, <<>>)

\* the length of the assembled message around the summary text
TemplateLen == Len(FullMessage(Structured(<<"a">>, NoCharts, NoTrs))) - 1

\* a summary of k equal lines that makes the assembled message n long
SummaryFor(n, k) ==
    LET room == n - TemplateLen - (k - 1)
        each == room \div k
    IN  join(<<"\n">>, [i \in 1..k |->
                          Line(IF i = k THEN room - each * (k - 1) ELSE each)])

OversizedSummaries ==
    { SummaryFor(9000, 90),                 \* many short lines
      SummaryFor(9000, 3),                  \* three long lines
      SummaryFor(4500, 1),                  \* a single line above the limit
      Lines(5, 1999),                       \* two lines fill a chunk
      SummaryFor(4001, 2),
      \* a line that starts with blanks opens a chunk
      Line(3000) \o <<"\n", " ", " ">> \o Line(2000) \o <<"\n">> \o Line(100),
      \* 9000 characters, most of them in lines of blanks
      <<"a", "\n">> \o Rep(<<" ">>, 3999) \o <<"\n">>
      \o Rep(<<" ">>, 9000 - TemplateLen - 7905) \o <<"\n">>
      \o Rep(<<" ">>, 3900) \o <<"\n", "b">> }

FittingSummaries ==
    { <<"S", "t", "o", "c", "k", "s", " ", "r", "o", "s", "e", " ", "2", ".",
        "5", "%", " ", "t", "o", "d", "a", "y", ".">>, SummaryFor(4000, 2) }

ReportInputs ==
    {Structured(s, NoCharts, NoTrs) : s \in OversizedSummaries \cup FittingSummaries}
    \cup {Structured(<<"S", "t", "o", "c", "k", "s", " ", "u", "p", "_", "1">>, PList(ChartsWithInvalidAt(2, 0)),
                     SampleTranslations)}
    \cup {Structured(<<>>, PList(ChartsWithInvalidAt(7, p)), NoTrs) : p \in 0..7}
    \cup {Structured(<<>>, NoCharts, NoTrs),
          PDict(<<k_summary>>, <<PStr(<<>>)>>),
          Structured(<<" ">>, NoCharts, AllLangs(<<>>)),
          Structured(<<>>, NoCharts, AllLangs(<<>>)),
          Structured(<<>>, PList(<<PInt(<<"7">>), ChartUrl(2)>>), NoTrs),
          \* a language key and a value with Markdown characters
          Structured(<<"D", "o", "w", " ", "u", "p", " ", "(", "1", "%", ")">>,
                     NoCharts,
                     PDict(<<<<"p", "t", "_", "b", "r">>>>,
                           <<PStr(<<"e", "m", " ", "a", "l", "t", "a", "!">>)>>))}

OtherDeliveryInputs ==
    { PDict(<<k_summary, k_charts>>, <<PStr(<<"s">>), PNone>>),
      PDict(<<k_translations>>, <<PDict(<<k_Hindi>>, <<PInt(<<"5">>)>>)>>),
      PDict(<<k_raw>>, <<PStr(<<"{", "\"", "s", "u", "m", "m", "a", "r", "y",
                                "\"", ":", " ", "\"", "D", "o", "w", " ",
                                "u", "p", "\"", ",", " ", "\"", "c", "h",
                                "a", "r", "t", "s", "\"", ":", " ", "[", "]",
                                "}">>)>>),
      PStr(<<"M", "a", "r", "k", "e", "t", "s", " ", "c", "l", "o", "s", "e",
             "d", " ", "h", "i", "g", "h", "e", "r">>),
      PList(<<PStr(<<"s", "t", "o", "c", "k", " ", "m", "a", "r", "k", "e",
                     "t", " ", "r", "a", "l", "l", "i", "e", "d", " ", "s",
                     "t", "r", "o", "n", "g", "l", "y", " ", "t", "o", "d",
                     "a", "y">>),
              PStr(<<"h", "t", "t", "p", "s", ":", "/", "/", "x", ".", "i",
                     "o", "/", "a", ".", "p", "n", "g">>)>>) }

\* a report that has a "raw" entry of its own
ReportWithRaw ==
    PDict(<<k_summary, k_raw>>,
          <<PStr(<<"D", "o", "w", " ", "u", "p">>),
            PDict(<<k_summary, k_charts>>,
                  <<PStr(<<"D", "o", "w", " ", "d", "o", "w", "n">>),
                    PList(<<PStr(<<"h", "t", "t", "p", "s", ":", "/", "/",
                                   "x", ".", "i", "o", "/", "a", ".", "p",
                                   "n", "g">>)>>)>>)>>)

\* values in envelopes: mappings under "raw" and JSON texts of mappings
EnvelopeInputs ==
    { ReportWithRaw,
      PDict(<<k_raw>>, <<PDict(<<k_raw>>, <<ReportWithRaw>>)>>),
      PDict(<<k_raw>>,
            <<PStr(<<"{", "\"", "r", "a", "w", "\"", ":", " ", "{", "\"",
                     "s", "u", "m", "m", "a", "r", "y", "\"", ":", " ", "\"",
                     "D", "o", "w", " ", "u", "p", "\"", ",", " ", "\"", "r",
                     "a", "w", "\"", ":", " ", "{", "\"", "s", "u", "m", "m",
                     "a", "r", "y", "\"", ":", " ", "\"", "D", "o", "w", " ",
                     "d", "o", "w", "n", "\"", ",", " ", "\"", "c", "h", "a",
                     "r", "t", "s", "\"", ":", " ", "[", "\"", "h", "t", "t",
                     "p", "s", ":", "/", "/", "x", ".", "i", "o", "/", "a",
                     ".", "p", "n", "g", "\"", "]", "}", "}", "}">>)>>),
      PStr(<<"{", "\"", "c", "h", "a", "r", "t", "s", "\"", ":", " ", "[",
             "\"", "h", "t", "t", "p", "s", ":", "/", "/", "x", ".", "i",
             "o", "/", "a", ".", "p", "n", "g", "\"", "]", "}">>),
      PDict(<<k_raw>>, <<PDict(<<k_charts>>, <<PInt(<<"5">>)>>)>>) }

DeliveryInputs == ReportInputs \cup OtherDeliveryInputs \cup EnvelopeInputs

DlIdle ==
    /\ dl_data = PNone
    /\ dl_pc = "idle"
    /\ structured_data = PNone
    /\ full_message = <<>>
    /\ outbox = <<>>
    /\ out_i = 1
    /\ http_log = <<>>
    /\ chart_i = 1
    /\ charts_sent = 0
    /\ dl_error = <<>>
    /\ dl_result = <<>>

DlInit ==
    /\ dl_data \in DeliveryInputs
    /\ dl_pc = "called"
    /\ structured_data = PNone
    /\ full_message = <<>>
    /\ outbox = <<>>
    /\ out_i = 1
    /\ http_log = <<>>
    /\ chart_i = 1
    /\ charts_sent = 0
    /\ dl_error = <<>>
    /\ dl_result = <<>>

----------------------------------------------------------------------------
(* News Retrieval: search_agent.py                                         *)

\* item.get(..., "")[:150]
SnippetLimit == 150

k_query == <<"q", "u", "e", "r", "y">>
k_title == <<"t", "i", "t", "l", "e">>
k_content == <<"c", "o", "n", "t", "e", "n", "t">>
k_results == <<"r", "e", "s", "u", "l", "t", "s">>
k_organic == <<"o", "r", "g", "a", "n", "i", "c">>
k_snippet == <<"s", "n", "i", "p", "p", "e", "t">>

\* Line 27
DefaultQuery == <<"l", "a", "t", "e", "s", "t", " ", "U", "S", " ", "f", "i",
                  "n", "a", "n", "c", "i", "a", "l", " ", "m", "a", "r", "k",
                  "e", "t", " ", "n", "e", "w", "s">>

\* Line 89: query + " finance stock market"
SerperSuffix == <<" ", "f", "i", "n", "a", "n", "c", "e", " ", "s", "t", "o",
                  "c", "k", " ", "m", "a", "r", "k", "e", "t">>

\* Lines 17-27: "Normalize query -> string"
NormalizeQuery(v) ==
    LET picked ==
          IF v.t = "str" THEN v.s
          ELSE IF v.t = "dict"
               THEN IF HasKey(v, k_query) /\ Get(v, k_query).t = "str"
                    THEN Get(v, k_query).s
                    ELSE IF HasKey(v, k_description)
                            /\ Get(v, k_description).t = "str"
                         THEN Get(v, k_description).s
                         ELSE <<>>
          ELSE <<>>
    IN  IF picked = <<>> THEN DefaultQuery ELSE picked

NotSubscriptable(v) ==
    <<"'">> \o TypeName(v) \o <<"'", " ", "o", "b", "j", "e", "c", "t", " ",
                                "i", "s", " ", "n", "o", "t", " ", "s", "u",
                                "b", "s", "c", "r", "i", "p", "t", "a", "b",
                                "l", "e">>

NoGetAttribute(v) ==
    <<"'">> \o TypeName(v) \o <<"'", " ", "o", "b", "j", "e", "c", "t", " ",
                                "h", "a", "s", " ", "n", "o", " ", "a", "t",
                                "t", "r", "i", "b", "u", "t", "e", " ", "'",
                                "g", "e", "t", "'">>

\* Lines 77, 98: item.get(key, "")[:150] of a str or a list; any other
\* value cannot be sliced
Snippet(item, key) ==
    LET v == GetOr(item, key, PStr(<<>>))
    IN  IF v.t = "str" THEN Returns(PStr(Take(v.s, SnippetLimit)))
        ELSE IF v.t = "list" THEN Returns(PList(Take(v.items, SnippetLimit)))
        ELSE Raises(NotSubscriptable(v))

\* Lines 76-78, 97-99: f"{title} - {content}" for one item of the response
Headline(item, key) ==
    IF item.t # "dict" THEN Raises(NoGetAttribute(item))
    ELSE LET sn == Snippet(item, key)
         IN  IF ~sn.ok THEN sn
             ELSE Returns(PStr(py_str(GetOr(item, k_title, PStr(<<>>)))
                               \o <<" ", "-", " ">> \o py_str(sn.val)))

\* Lines 73-78, 94-99: the results list built from the decoded body; the
\* first exception ends the loop
Results(data, list_key, text_key) ==
    IF data.t # "dict" THEN Raises(NoGetAttribute(data))
    ELSE LET it == ListOf(GetOr(data, list_key, PList(<<>>)))
         IN  IF ~it.ok THEN it
             ELSE LET hs == [i \in 1..Len(it.val.items) |->
                               Headline(it.val.items[i], text_key)]
                      bad == {i \in 1..Len(hs) : ~hs[i].ok}
                  IN  IF bad # {}
                      THEN hs[CHOOSE i \in bad : \A j \in bad : i <= j]
                      ELSE Returns(PList([i \in 1..Len(hs) |-> hs[i].val]))

\* What requests.post and response.json() can do: the post raises (timeout,
\* connection error), or it returns a status and a body that decodes or not.
PostRaises == [raises |-> TRUE, status_code |-> 0, json_ok |-> FALSE,
               data |-> PNone]
Status(code) == [raises |-> FALSE, status_code |-> code, json_ok |-> FALSE,
                 data |-> PNone]
BadJson == [raises |-> FALSE, status_code |-> 200, json_ok |-> FALSE,
            data |-> PNone]
Ok(body) == [raises |-> FALSE, status_code |-> 200, json_ok |-> TRUE,
             data |-> body]

\* Lines 70-83, 91-104: one attempt. raised: an exception reached the
\* except clause of the attempt; results: what the attempt returned from
\* _fetch_real_news, empty when it fell through.
Attempt(resp, list_key, text_key) ==
    IF resp.raises THEN [raised |-> TRUE, results |-> <<>>]
    ELSE IF resp.status_code # 200 THEN [raised |-> FALSE, results |-> <<>>]
    ELSE IF ~resp.json_ok THEN [raised |-> TRUE, results |-> <<>>]
    ELSE LET r == Results(resp.data, list_key, text_key)
         IN  IF r.ok THEN [raised |-> FALSE, results |-> r.val.items]
             ELSE [raised |-> TRUE, results |-> <<>>]

\* datetime.now().strftime('%Y-%m-%d') on two consecutive days
Dates == <<<<"2", "0", "2", "5", "-", "0", "1", "-", "1", "5">>, <<"2", "0", "2", "5", "-", "0", "1", "-", "1", "6">>>>

\* Mutant: the list lost its last headline.
mock_news_nine(d1, d2) ==
    PList(<<
      PStr(<<"S", "&", "P", " ", "5", "0", "0", " ", "c", "l", "o", "s", "e",
             "s", " ", "u", "p", " ", "1", ".", "2", "%", " ", "a", "t", " ",
             "4", ",", "7", "5", "0", " ", "p", "o", "i", "n", "t", "s", " ",
             "o", "n", " ", "s", "t", "r", "o", "n", "g", " ", "t", "e", "c",
             "h", " ", "e", "a", "r", "n", "i", "n", "g", "s", ",", " ", "N",
             "A", "S", "D", "A", "Q", " ", "g", "a", "i", "n", "s", " ", "1",
             ".", "8", "%", " ", "-", " ">> \o d1),
      PStr(<<"D", "o", "w", " ", "J", "o", "n", "e", "s", " ", "I", "n", "d",
             "u", "s", "t", "r", "i", "a", "l", " ", "A", "v", "e", "r", "a",
             "g", "e", " ", "r", "i", "s", "e", "s", " ", "2", "8", "0", " ",
             "p", "o", "i", "n", "t", "s", " ", "t", "o", " ", "3", "7", ",",
             "2", "0", "0", " ", "a", "m", "i", "d", " ", "p", "o", "s", "i",
             "t", "i", "v", "e", " ", "e", "c", "o", "n", "o", "m", "i", "c",
             " ", "d", "a", "t", "a", " ", "-", " ">> \o d2),
      PStr(<<"T", "e", "s", "l", "a", " ", "s", "t", "o", "c", "k", " ", "j",
             "u", "m", "p", "s", " ", "5", ".", "2", "%", " ", "a", "f", "t",
             "e", "r", " ", "b", "e", "a", "t", "i", "n", "g", " ", "Q", "3",
             " ", "d", "e", "l", "i", "v", "e", "r", "y", " ", "e", "x", "p",
             "e", "c", "t", "a", "t", "i", "o", "n", "s", " ", "w", "i", "t",
             "h", " ", "4", "6", "2", ",", "0", "0", "0", " ", "v", "e", "h",
             "i", "c", "l", "e", "s", " ", "d", "e", "l", "i", "v", "e", "r",
             "e", "d">>),
      PStr(<<"A", "p", "p", "l", "e", " ", "s", "h", "a", "r", "e", "s", " ",
             "g", "a", "i", "n", " ", "2", ".", "1", "%", " ", "o", "n", " ",
             "r", "e", "p", "o", "r", "t", "s", " ", "o", "f", " ", "s", "t",
             "r", "o", "n", "g", " ", "i", "P", "h", "o", "n", "e", " ", "1",
             "5", " ", "p", "r", "e", "-", "o", "r", "d", "e", "r", "s", " ",
             "e", "x", "c", "e", "e", "d", "i", "n", "g", " ", "a", "n", "a",
             "l", "y", "s", "t", " ", "e", "s", "t", "i", "m", "a", "t", "e",
             "s">>),
      PStr(<<"F", "e", "d", "e", "r", "a", "l", " ", "R", "e", "s", "e", "r",
             "v", "e", " ", "o", "f", "f", "i", "c", "i", "a", "l", "s", " ",
             "s", "i", "g", "n", "a", "l", " ", "p", "o", "t", "e", "n", "t",
             "i", "a", "l", " ", "p", "a", "u", "s", "e", " ", "i", "n", " ",
             "r", "a", "t", "e", " ", "h", "i", "k", "e", "s", " ", "f", "o",
             "l", "l", "o", "w", "i", "n", "g", " ", "r", "e", "c", "e", "n",
             "t", " ", "i", "n", "f", "l", "a", "t", "i", "o", "n", " ", "d",
             "a", "t", "a", " ", "s", "h", "o", "w", "i", "n", "g", " ", "3",
             ".", "2", "%", " ", "a", "n", "n", "u", "a", "l", " ", "i", "n",
             "c", "r", "e", "a", "s", "e">>),
      PStr(<<"O", "i", "l", " ", "p", "r", "i", "c", "e", "s", " ", "d", "r",
             "o", "p", " ", "3", "%", " ", "t", "o", " ", "$", "8", "7", "/",
             "b", "a", "r", "r", "e", "l", " ", "o", "n", " ", "i", "n", "c",
             "r", "e", "a", "s", "e", "d", " ", "U", "S", " ", "c", "r", "u",
             "d", "e", " ", "i", "n", "v", "e", "n", "t", "o", "r", "y", " ",
             "a", "n", "d", " ", "d", "e", "m", "a", "n", "d", " ", "c", "o",
             "n", "c", "e", "r", "n", "s", " ", "f", "r", "o", "m", " ", "C",
             "h", "i", "n", "a">>),
      PStr(<<"M", "i", "c", "r", "o", "s", "o", "f", "t", " ", "s", "t", "o",
             "c", "k", " ", "r", "i", "s", "e", "s", " ", "1", ".", "9", "%",
             " ", "a", "f", "t", "e", "r", " ", "a", "n", "n", "o", "u", "n",
             "c", "i", "n", "g", " ", "n", "e", "w", " ", "A", "I", " ", "p",
             "a", "r", "t", "n", "e", "r", "s", "h", "i", "p", " ", "a", "n",
             "d", " ", "c", "l", "o", "u", "d", " ", "s", "e", "r", "v", "i",
             "c", "e", " ", "e", "x", "p", "a", "n", "s", "i", "o", "n">>),
      PStr(<<"G", "o", "l", "d", "m", "a", "n", " ", "S", "a", "c", "h", "s",
             " ", "r", "a", "i", "s", "e", "s", " ", "S", "&", "P", " ", "5",
             "0", "0", " ", "y", "e", "a", "r", "-", "e", "n", "d", " ", "t",
             "a", "r", "g", "e", "t", " ", "t", "o", " ", "4", ",", "8", "0",
             "0", " ", "c", "i", "t", "i", "n", "g", " ", "i", "m", "p", "r",
             "o", "v", "i", "n", "g", " ", "c", "o", "r", "p", "o", "r", "a",
             "t", "e", " ", "e", "a", "r", "n", "i", "n", "g", "s", " ", "o",
             "u", "t", "l", "o", "o", "k">>),
      PStr(<<"U", "S", " ", "j", "o", "b", "l", "e", "s", "s", " ", "c", "l",
             "a", "i", "m", "s", " ", "f", "a", "l", "l", " ", "t", "o", " ",
             "2", "1", "0", ",", "0", "0", "0", ",", " ", "l", "o", "w", "e",
             "s", "t", " ", "i", "n", " ", "3", " ", "m", "o", "n", "t", "h",
             "s", ",", " ", "i", "n", "d", "i", "c", "a", "t", "i", "n", "g",
             " ", "s", "t", "r", "o", "n", "g", " ", "l", "a", "b", "o", "r",
             " ", "m", "a", "r", "k", "e", "t", " ", "c", "o", "n", "d", "i",
             "t", "i", "o", "n", "s">>)>>)

\* Lines 40-51: mock_news, its first two headlines stamped with the date
\* of the two datetime.now() calls
mock_news(d1, d2) ==
    PList(<<
      PStr(<<"S", "&", "P", " ", "5", "0", "0", " ", "c", "l", "o", "s", "e",
             "s", " ", "u", "p", " ", "1", ".", "2", "%", " ", "a", "t", " ",
             "4", ",", "7", "5", "0", " ", "p", "o", "i", "n", "t", "s", " ",
             "o", "n", " ", "s", "t", "r", "o", "n", "g", " ", "t", "e", "c",
             "h", " ", "e", "a", "r", "n", "i", "n", "g", "s", ",", " ", "N",
             "A", "S", "D", "A", "Q", " ", "g", "a", "i", "n", "s", " ", "1",
             ".", "8", "%", " ", "-", " ">> \o d1),
      PStr(<<"D", "o", "w", " ", "J", "o", "n", "e", "s", " ", "I", "n", "d",
             "u", "s", "t", "r", "i", "a", "l", " ", "A", "v", "e", "r", "a",
             "g", "e", " ", "r", "i", "s", "e", "s", " ", "2", "8", "0", " ",
             "p", "o", "i", "n", "t", "s", " ", "t", "o", " ", "3", "7", ",",
             "2", "0", "0", " ", "a", "m", "i", "d", " ", "p", "o", "s", "i",
             "t", "i", "v", "e", " ", "e", "c", "o", "n", "o", "m", "i", "c",
             " ", "d", "a", "t", "a", " ", "-", " ">> \o d2),
      PStr(<<"T", "e", "s", "l", "a", " ", "s", "t", "o", "c", "k", " ", "j",
             "u", "m", "p", "s", " ", "5", ".", "2", "%", " ", "a", "f", "t",
             "e", "r", " ", "b", "e", "a", "t", "i", "n", "g", " ", "Q", "3",
             " ", "d", "e", "l", "i", "v", "e", "r", "y", " ", "e", "x", "p",
             "e", "c", "t", "a", "t", "i", "o", "n", "s", " ", "w", "i", "t",
             "h", " ", "4", "6", "2", ",", "0", "0", "0", " ", "v", "e", "h",
             "i", "c", "l", "e", "s", " ", "d", "e", "l", "i", "v", "e", "r",
             "e", "d">>),
      PStr(<<"A", "p", "p", "l", "e", " ", "s", "h", "a", "r", "e", "s", " ",
             "g", "a", "i", "n", " ", "2", ".", "1", "%", " ", "o", "n", " ",
             "r", "e", "p", "o", "r", "t", "s", " ", "o", "f", " ", "s", "t",
             "r", "o", "n", "g", " ", "i", "P", "h", "o", "n", "e", " ", "1",
             "5", " ", "p", "r", "e", "-", "o", "r", "d", "e", "r", "s", " ",
             "e", "x", "c", "e", "e", "d", "i", "n", "g", " ", "a", "n", "a",
             "l", "y", "s", "t", " ", "e", "s", "t", "i", "m", "a", "t", "e",
             "s">>),
      PStr(<<"F", "e", "d", "e", "r", "a", "l", " ", "R", "e", "s", "e", "r",
             "v", "e", " ", "o", "f", "f", "i", "c", "i", "a", "l", "s", " ",
             "s", "i", "g", "n", "a", "l", " ", "p", "o", "t", "e", "n", "t",
             "i", "a", "l", " ", "p", "a", "u", "s", "e", " ", "i", "n", " ",
             "r", "a", "t", "e", " ", "h", "i", "k", "e", "s", " ", "f", "o",
             "l", "l", "o", "w", "i", "n", "g", " ", "r", "e", "c", "e", "n",
             "t", " ", "i", "n", "f", "l", "a", "t", "i", "o", "n", " ", "d",
             "a", "t", "a", " ", "s", "h", "o", "w", "i", "n", "g", " ", "3",
             ".", "2", "%", " ", "a", "n", "n", "u", "a", "l", " ", "i", "n",
             "c", "r", "e", "a", "s", "e">>),
      PStr(<<"O", "i", "l", " ", "p", "r", "i", "c", "e", "s", " ", "d", "r",
             "o", "p", " ", "3", "%", " ", "t", "o", " ", "$", "8", "7", "/",
             "b", "a", "r", "r", "e", "l", " ", "o", "n", " ", "i", "n", "c",
             "r", "e", "a", "s", "e", "d", " ", "U", "S", " ", "c", "r", "u",
             "d", "e", " ", "i", "n", "v", "e", "n", "t", "o", "r", "y", " ",
             "a", "n", "d", " ", "d", "e", "m", "a", "n", "d", " ", "c", "o",
             "n", "c", "e", "r", "n", "s", " ", "f", "r", "o", "m", " ", "C",
             "h", "i", "n", "a">>),
      PStr(<<"M", "i", "c", "r", "o", "s", "o", "f", "t", " ", "s", "t", "o",
             "c", "k", " ", "r", "i", "s", "e", "s", " ", "1", ".", "9", "%",
             " ", "a", "f", "t", "e", "r", " ", "a", "n", "n", "o", "u", "n",
             "c", "i", "n", "g", " ", "n", "e", "w", " ", "A", "I", " ", "p",
             "a", "r", "t", "n", "e", "r", "s", "h", "i", "p", " ", "a", "n",
             "d", " ", "c", "l", "o", "u", "d", " ", "s", "e", "r", "v", "i",
             "c", "e", " ", "e", "x", "p", "a", "n", "s", "i", "o", "n">>),
      PStr(<<"G", "o", "l", "d", "m", "a", "n", " ", "S", "a", "c", "h", "s",
             " ", "r", "a", "i", "s", "e", "s", " ", "S", "&", "P", " ", "5",
             "0", "0", " ", "y", "e", "a", "r", "-", "e", "n", "d", " ", "t",
             "a", "r", "g", "e", "t", " ", "t", "o", " ", "4", ",", "8", "0",
             "0", " ", "c", "i", "t", "i", "n", "g", " ", "i", "m", "p", "r",
             "o", "v", "i", "n", "g", " ", "c", "o", "r", "p", "o", "r", "a",
             "t", "e", " ", "e", "a", "r", "n", "i", "n", "g", "s", " ", "o",
             "u", "t", "l", "o", "o", "k">>),
      PStr(<<"U", "S", " ", "j", "o", "b", "l", "e", "s", "s", " ", "c", "l",
             "a", "i", "m", "s", " ", "f", "a", "l", "l", " ", "t", "o", " ",
             "2", "1", "0", ",", "0", "0", "0", ",", " ", "l", "o", "w", "e",
             "s", "t", " ", "i", "n", " ", "3", " ", "m", "o", "n", "t", "h",
             "s", ",", " ", "i", "n", "d", "i", "c", "a", "t", "i", "n", "g",
             " ", "s", "t", "r", "o", "n", "g", " ", "l", "a", "b", "o", "r",
             " ", "m", "a", "r", "k", "e", "t", " ", "c", "o", "n", "d", "i",
             "t", "i", "o", "n", "s">>),
      PStr(<<"B", "i", "t", "c", "o", "i", "n", " ", "t", "r", "a", "d", "e",
             "s", " ", "a", "t", " ", "$", "4", "3", ",", "2", "0", "0", ",",
             " ", "u", "p", " ", "2", ".", "8", "%", " ", "a", "s", " ", "i",
             "n", "s", "t", "i", "t", "u", "t", "i", "o", "n", "a", "l", " ",
             "a", "d", "o", "p", "t", "i", "o", "n", " ", "c", "o", "n", "t",
             "i", "n", "u", "e", "s", " ", "w", "i", "t", "h", " ", "n", "e",
             "w", " ", "E", "T", "F", " ", "a", "p", "p", "r", "o", "v", "a",
             "l", "s">>)>>)

\* ---- inputs ----
SimpleQuery == <<"l", "a", "t", "e", "s", "t", " ", "f", "i", "n", "a", "n",
                 "c", "i", "a", "l", " ", "m", "a", "r", "k", "e", "t", " ",
                 "n", "e", "w", "s">>

QueryInputs ==
    { PStr(SimpleQuery), PStr(<<>>), PNone, PInt(<<"7">>),
      PDict(<<k_query>>, <<PStr(<<"f", "e", "d">>)>>),
      PDict(<<k_query, k_description>>, <<PInt(<<"1">>), PStr(<<"o", "i", "l">>)>>),
      PDict(<<k_query>>, <<PStr(<<>>)>>),
      PList(<<PStr(<<"f", "e", "d">>)>>) }

Item(title_value, text_key, text_value) ==
    PDict(<<k_title, text_key>>, <<title_value, text_value>>)

LongText == Rep(<<"x">>, SnippetLimit + 30)

\* Bodies a provider can answer with, in the shape of that provider
Bodies(list_key, text_key) ==
    { PDict(<<list_key>>, <<PList(<<>>)>>),
      PDict(<<>>, <<>>),
      PDict(<<list_key>>,
            <<PList(<<Item(PStr(<<"F", "e", "d", " ", "h", "o", "l", "d", "s">>), text_key, PStr(LongText)),
                      Item(PStr(<<"O", "i", "l", " ", "u", "p">>), text_key, PStr(<<"3", "%">>))>>)>>),
      PDict(<<list_key>>,
            <<PList(<<PDict(<<k_title>>, <<PNone>>)>>)>>),
      PDict(<<list_key>>,
            <<PList(<<Item(PStr(<<"F", "e", "d", " ", "h", "o", "l", "d", "s">>), text_key, PStr(<<"o", "k">>)),
                      Item(PStr(<<"O", "i", "l", " ", "u", "p">>), text_key, PNone)>>)>>),
      PDict(<<list_key>>, <<PNone>>),
      PList(<<PStr(<<"F", "e", "d", " ", "h", "o", "l", "d", "s">>)>>) }

ProviderResponses(list_key, text_key) ==
    {PostRaises, Status(500), Status(401), BadJson}
    \cup {Ok(b) : b \in Bodies(list_key, text_key)}

SrIdle ==
    /\ query = PNone
    /\ sr_pc = "idle"
    /\ sr_q = <<>>
    /\ search_posts = <<>>
    /\ real_news = <<>>
    /\ sr_result = PNone

SrInit ==
    /\ query \in QueryInputs
    /\ sr_pc = "called"
    /\ sr_q = <<>>
    /\ search_posts = <<>>
    /\ real_news = <<>>
    /\ sr_result = PNone

\* One requests.post of _fetch_real_news and what came of it
SearchPost(provider, payload_query, resp, att) ==
    [provider |-> provider, query |-> payload_query, response |-> resp,
     raised |-> att.raised, results |-> att.results]

\* Lines 17-30: normalize the query; _fetch_real_news is entered only when
\* a search credential is set.
search_agent_normalize ==
    /\ sr_pc = "called"
    /\ sr_q' = NormalizeQuery(query)
    /\ sr_pc' = IF TAVILY_API_KEY \/ SERPER_API_KEY THEN "tavily" ELSE "mock"
    /\ UNCHANGED <<query, search_posts, real_news, sr_result>>
    /\ UNCHANGED <<orch_vars, sum_vars, tr_vars, dl_vars>>

\* Lines 59-83: the Tavily attempt. Without the credential the block is
\* skipped; with it one post is made, and non-empty results are returned.
\* Mutant: the results of the first provider do not end the function.
_fetch_real_news_tavily_falling_through ==
    /\ sr_pc = "tavily"
    /\ IF TAVILY_API_KEY
       THEN \E resp \in ProviderResponses(k_results, k_content) :
              LET att == Attempt(resp, k_results, k_content)
              IN  /\ search_posts' =
                       Append(search_posts, SearchPost("tavily", sr_q, resp, att))
                  /\ real_news' = att.results
                  /\ sr_pc' = "serper"
       ELSE /\ sr_pc' = "serper"
            /\ UNCHANGED <<search_posts, real_news>>
    /\ UNCHANGED <<query, sr_q, sr_result>>
    /\ UNCHANGED <<orch_vars, sum_vars, tr_vars, dl_vars>>

_fetch_real_news_tavily ==
    /\ sr_pc = "tavily"
    /\ IF TAVILY_API_KEY
       THEN \E resp \in ProviderResponses(k_results, k_content) :
              LET att == Attempt(resp, k_results, k_content)
              IN  /\ search_posts' =
                       Append(search_posts, SearchPost("tavily", sr_q, resp, att))
                  /\ real_news' = att.results
                  /\ sr_pc' = IF att.results # <<>> THEN "fetched" ELSE "serper"
       ELSE /\ sr_pc' = "serper"
            /\ UNCHANGED <<search_posts, real_news>>
    /\ UNCHANGED <<query, sr_q, sr_result>>
    /\ UNCHANGED <<orch_vars, sum_vars, tr_vars, dl_vars>>

\* Lines 85-106: the Serper attempt, and "return []" when it yields nothing.
_fetch_real_news_serper ==
    /\ sr_pc = "serper"
    /\ IF SERPER_API_KEY
       THEN \E resp \in ProviderResponses(k_organic, k_snippet) :
              LET att == Attempt(resp, k_organic, k_snippet)
              IN  /\ search_posts' =
                       Append(search_posts,
                              SearchPost("serper", sr_q \o SerperSuffix, resp, att))
                  /\ real_news' = att.results
       ELSE /\ real_news' = <<>>
            /\ UNCHANGED search_posts
    /\ sr_pc' = "fetched"
    /\ UNCHANGED <<query, sr_q, sr_result>>
    /\ UNCHANGED <<orch_vars, sum_vars, tr_vars, dl_vars>>

\* Lines 33-35: "if real_news: return real_news"
\* Mutant: real_news is returned whatever it holds.
search_agent_return_real_unchecked ==
    /\ sr_pc = "fetched"
    /\ sr_result' = PList(real_news)
    /\ sr_pc' = "returned"
    /\ UNCHANGED <<query, sr_q, search_posts, real_news>>
    /\ UNCHANGED <<orch_vars, sum_vars, tr_vars, dl_vars>>

search_agent_return_real ==
    /\ sr_pc = "fetched"
    /\ real_news # <<>>
    /\ sr_result' = PList(real_news)
    /\ sr_pc' = "returned"
    /\ UNCHANGED <<query, sr_q, search_posts, real_news>>
    /\ UNCHANGED <<orch_vars, sum_vars, tr_vars, dl_vars>>

\* Lines 39-54: no credential, or _fetch_real_news returned the empty list:
\* the mock list is built (two datetime.now() calls) and returned.
search_agent_return_mock ==
    /\ \/ sr_pc = "mock"
       \/ sr_pc = "fetched" /\ real_news = <<>>
    /\ \E i \in 1..Len(Dates) : \E j \in i..Len(Dates) :
         sr_result' = mock_news(Dates[i], Dates[j])
    /\ sr_pc' = "returned"
    /\ UNCHANGED <<query, sr_q, search_posts, real_news>>
    /\ UNCHANGED <<orch_vars, sum_vars, tr_vars, dl_vars>>

SrNext ==
    \/ search_agent_normalize
    \/ _fetch_real_news_tavily
    \/ _fetch_real_news_serper
    \/ search_agent_return_real
    \/ search_agent_return_mock

----------------------------------------------------------------------------
(* The simplified run over the tools (market_flow.py lines 166-197).       *)
(* Each step of run_market_flow_simple hands the value bound by the step   *)
(* before to the tool itself, which then runs as modelled above, and binds *)
(* what the tool returned. Python passes the object, not a copy: a tool    *)
(* that changed its argument in place would change the caller's variable   *)
(* too. No statement of the four tools or of formatting_agent assigns into *)
(* its argument, so the tool actions leave the orchestrator untouched.     *)
(* When a tool returns, its invocation is over and its variables are at    *)
(* rest again; what it returned lives on in the orchestrator's variable.   *)

\* formatting_agent.py lines 12-17: the two placeholder chart URLs
formatting_charts ==
    PList(<<PStr(<<"h", "t", "t", "p", "s", ":", "/", "/", "d", "u", "m",
                   "m", "y", "i", "m", "a", "g", "e", ".", "c", "o", "m",
                   "/", "6", "0", "0", "x", "4", "0", "0", "/", "0", "0",
                   "0", "/", "f", "f", "f", "&", "t", "e", "x", "t", "=",
                   "C", "h", "a", "r", "t", "1">>),
            PStr(<<"h", "t", "t", "p", "s", ":", "/", "/", "d", "u", "m",
                   "m", "y", "i", "m", "a", "g", "e", ".", "c", "o", "m",
                   "/", "6", "0", "0", "x", "4", "0", "0", "/", "0", "0",
                   "0", "/", "f", "f", "f", "&", "t", "e", "x", "t", "=",
                   "C", "h", "a", "r", "t", "2">>)>>)

\* Line 173: news_data = search_tool.run("latest financial market news")
call_search_tool ==
    /\ pc = "simple" /\ task = 1 /\ stage["search"] = "idle"
    /\ stage' = [stage EXCEPT !["search"] = "running"]
    /\ query' = PStr(SimpleQuery)
    /\ sr_pc' = "called"
    /\ UNCHANGED <<sr_q, search_posts, real_news, sr_result>>
    /\ UNCHANGED <<entry, config_vars, missing, pc, task, news_data,
                   summary_data, charts_data, translations_data, final_data,
                   send_log, e, primary_result, raised, simple_result,
                   process_result, sum_vars, tr_vars, dl_vars>>

search_tool_returns ==
    /\ pc = "simple" /\ task = 1 /\ stage["search"] = "running"
    /\ sr_pc = "returned"
    /\ news_data' = sr_result
    /\ stage' = [stage EXCEPT !["search"] = "returned"]
    /\ task' = 2
    /\ query' = PNone /\ sr_pc' = "idle" /\ sr_q' = <<>>
    /\ search_posts' = <<>> /\ real_news' = <<>> /\ sr_result' = PNone
    /\ UNCHANGED <<entry, config_vars, missing, pc, summary_data, charts_data,
                   translations_data, final_data, send_log, e, primary_result,
                   raised, simple_result, process_result, sum_vars, tr_vars,
                   dl_vars>>

\* Line 176: summary_data = summary_tool.run(news_data)
call_summary_tool ==
    /\ pc = "simple" /\ task = 2 /\ stage["summary"] = "idle"
    /\ stage' = [stage EXCEPT !["summary"] = "running"]
    /\ news' = news_data
    /\ sum_pc' = "called"
    /\ UNCHANGED <<headlines, attempt, completion_calls, sleeps,
                   success_attempt, summary>>
    /\ UNCHANGED <<entry, config_vars, missing, pc, task, news_data,
                   summary_data, charts_data, translations_data, final_data,
                   send_log, e, primary_result, raised, simple_result,
                   process_result, tr_vars, dl_vars, sr_vars>>

summary_tool_returns ==
    /\ pc = "simple" /\ task = 2 /\ stage["summary"] = "running"
    /\ sum_pc = "returned"
    /\ summary_data' = PStr(summary)
    /\ stage' = [stage EXCEPT !["summary"] = "returned"]
    /\ task' = 3
    /\ news' = PNone /\ sum_pc' = "idle" /\ headlines' = <<>>
    /\ attempt' = 0 /\ completion_calls' = 0 /\ sleeps' = <<>>
    /\ success_attempt' = 0 /\ summary' = <<>>
    /\ UNCHANGED <<entry, config_vars, missing, pc, news_data, charts_data,
                   translations_data, final_data, send_log, e, primary_result,
                   raised, simple_result, process_result, tr_vars, dl_vars,
                   sr_vars>>

\* Line 179: charts_data = charts_tool.run(summary_data); formatting_agent
\* prints its argument and returns the placeholder list.
charts_tool_runs ==
    /\ pc = "simple" /\ task = 3 /\ stage["charts"] = "idle"
    /\ charts_data' = formatting_charts
    /\ stage' = [stage EXCEPT !["charts"] = "returned"]
    /\ task' = 4
    /\ UNCHANGED <<entry, config_vars, missing, pc, news_data, summary_data,
                   translations_data, final_data, send_log, e, primary_result,
                   raised, simple_result, process_result, tool_vars>>

\* Line 182: translations_data = translate_tool.run(summary_data)
call_translate_tool ==
    /\ pc = "simple" /\ task = 4 /\ stage["translate"] = "idle"
    /\ stage' = [stage EXCEPT !["translate"] = "running"]
    /\ tr_summary' = summary_data
    /\ tr_pc' = "called"
    /\ UNCHANGED <<text, tr_completion_calls, content, tr_path, translations>>
    /\ UNCHANGED <<entry, config_vars, missing, pc, task, news_data,
                   summary_data, charts_data, translations_data, final_data,
                   send_log, e, primary_result, raised, simple_result,
                   process_result, sum_vars, dl_vars, sr_vars>>

translate_tool_returns ==
    /\ pc = "simple" /\ task = 4 /\ stage["translate"] = "running"
    /\ tr_pc = "returned"
    /\ translations_data' = translations
    /\ stage' = [stage EXCEPT !["translate"] = "returned"]
    /\ task' = 5
    /\ tr_summary' = PNone /\ tr_pc' = "idle" /\ text' = <<>>
    /\ tr_completion_calls' = 0 /\ content' = <<>> /\ tr_path' = "none"
    /\ translations' = PNone
    /\ UNCHANGED <<entry, config_vars, missing, pc, news_data, summary_data,
                   charts_data, final_data, send_log, e, primary_result,
                   raised, simple_result, process_result, sum_vars, dl_vars,
                   sr_vars>>

\* Lines 185-190: final_data = {"summary": ..., "charts": ...,
\* "translations": ...}; send_result = send_tool.run(final_data)
call_send_tool ==
    /\ pc = "simple" /\ task = 5 /\ stage["send"] = "idle"
    /\ stage' = [stage EXCEPT !["send"] = "running"]
    /\ final_data' = PDict(<<k_summary, k_charts, k_translations>>,
                           <<summary_data, charts_data, translations_data>>)
    /\ dl_data' = final_data'
    /\ dl_pc' = "called"
    /\ UNCHANGED <<structured_data, full_message, outbox, out_i, http_log,
                   chart_i, charts_sent, dl_error, dl_result>>
    /\ UNCHANGED <<entry, config_vars, missing, pc, task, news_data,
                   summary_data, charts_data, translations_data, send_log, e,
                   primary_result, raised, simple_result, process_result,
                   sum_vars, tr_vars, sr_vars>>

\* Lines 190-193: send_result is bound and returned.
send_tool_returns ==
    /\ pc = "simple" /\ task = 5 /\ stage["send"] = "running"
    /\ dl_pc = "returned"
    /\ stage' = [stage EXCEPT !["send"] = "returned"]
    /\ task' = 6
    /\ simple_result' = "send_result"
    /\ process_result' = "returned"
    /\ pc' = "done"
    /\ dl_data' = PNone /\ dl_pc' = "idle" /\ structured_data' = PNone
    /\ full_message' = <<>> /\ outbox' = <<>> /\ out_i' = 1
    /\ http_log' = <<>> /\ chart_i' = 1 /\ charts_sent' = 0
    /\ dl_error' = <<>> /\ dl_result' = <<>>
    /\ UNCHANGED <<entry, config_vars, missing, news_data, summary_data,
                   charts_data, translations_data, final_data, send_log, e,
                   primary_result, raised, sum_vars, tr_vars, sr_vars>>

\* The tools never raise on what the step before returned (the headlines of
\* search_agent are strings), so the except clause of lines 195-197 is not
\* taken in this composition; formatting_agent's URLs are all valid, so the
\* chart loop skips none.
PipelineNext ==
    \/ call_search_tool
    \/ SrNext
    \/ search_tool_returns
    \/ call_summary_tool
    \/ SumNext
    \/ summary_tool_returns
    \/ charts_tool_runs
    \/ call_translate_tool
    \/ TrNext
    \/ translate_tool_returns
    \/ call_send_tool
    \/ send_sync_start
    \/ _send_telegram_message_markdown
    \/ _send_telegram_message_plain
    \/ _send_telegram_photo
    \/ send_sync_return
    \/ send_tool_returns

\* main.py: one process that imports the configuration and calls
\* run_market_flow() without a fallback.
PrimaryNext ==
    \/ validate_config_on_import
    \/ create_groq_llm_raises
    \/ crew_kickoff
    \/ crew_task_start
    \/ crew_task_return
    \/ crew_task_raise
    \/ run_market_flow_return
    \/ error_notification
    \/ run_market_flow_raise
    \/ main_py_exit

\* a step of a run of either mode
RunsNext == PrimaryNext \/ PipelineNext

\* the steps of a run but for fallback_return and send_sync_start
LightStep ==
    \/ PrimaryNext
    \/ call_search_tool
    \/ SrNext
    \/ search_tool_returns
    \/ call_summary_tool
    \/ summary_extract
    \/ completion_returns
    \/ completion_raises
    \/ retry_sleep
    \/ summary_tool_returns
    \/ charts_tool_runs
    \/ call_translate_tool
    \/ TrNext
    \/ translate_tool_returns
    \/ call_send_tool
    \/ _send_telegram_message_markdown
    \/ _send_telegram_message_plain
    \/ _send_telegram_photo
    \/ send_sync_return
    \/ send_tool_returns

----------------------------------------------------------------------------
(* Specifications                                                          *)

\* The orchestrator, with the tools idle.
Init == OrchInit /\ SumIdle /\ TrIdle /\ DlIdle /\ SrIdle

Next == OrchNext

Spec == Init /\ [][Next]_vars

\* One invocation of summary_agent on each input, the orchestrator at rest.
InitSummary ==
    /\ OrchInit /\ entry = "main_py" /\ ~GROQ_API_KEY
    /\ TELEGRAM_BOT_TOKEN /\ TELEGRAM_CHAT_ID
    /\ TAVILY_API_KEY /\ SERPER_API_KEY
    /\ SumInit /\ TrIdle /\ DlIdle /\ SrIdle

SpecSummary == InitSummary /\ [][SumNext]_vars

\* One invocation of translate_agent on each input, the rest at rest.
InitTranslate ==
    /\ OrchInit /\ entry = "main_py" /\ ~GROQ_API_KEY
    /\ TELEGRAM_BOT_TOKEN /\ TELEGRAM_CHAT_ID
    /\ TAVILY_API_KEY /\ SERPER_API_KEY
    /\ SumIdle /\ TrInit /\ DlIdle /\ SrIdle

SpecTranslate == InitTranslate /\ [][TrNext]_vars

\* One invocation of send_agent on each input, the rest at rest.
InitDelivery ==
    /\ OrchInit /\ entry = "main_py" /\ ~GROQ_API_KEY
    /\ TELEGRAM_BOT_TOKEN /\ TELEGRAM_CHAT_ID
    /\ TAVILY_API_KEY /\ SERPER_API_KEY
    /\ SumIdle /\ TrIdle /\ DlInit /\ SrIdle

SpecDelivery == InitDelivery /\ [][DlNext]_vars

\* One invocation of search_agent on each input and each combination of
\* search credentials, the rest at rest.
InitSearch ==
    /\ OrchInit /\ entry = "main_py" /\ ~GROQ_API_KEY
    /\ TELEGRAM_BOT_TOKEN /\ TELEGRAM_CHAT_ID
    /\ SumIdle /\ TrIdle /\ DlIdle /\ SrInit

SpecSearch == InitSearch /\ [][SrNext]_vars

\* One call of run_market_flow_simple() once the imports are done, every
\* stage running its tool, for each combination of search credentials.
InitPipeline ==
    /\ entry = "market_flow_main"
    /\ GROQ_API_KEY = TRUE
    /\ TELEGRAM_BOT_TOKEN = TRUE
    /\ TELEGRAM_CHAT_ID = TRUE
    /\ TAVILY_API_KEY = TRUE
    /\ SERPER_API_KEY = TRUE
    /\ missing = MissingVariables
    /\ pc = "simple"
    /\ task = 1
    /\ stage = IdleStages
    /\ news_data = PNone
    /\ summary_data = PNone
    /\ charts_data = PNone
    /\ translations_data = PNone
    /\ final_data = PNone
    /\ send_log = <<>>
    /\ e = ""
    /\ primary_result = "none"
    /\ raised = ""
    /\ simple_result = "none"
    /\ process_result = "none"
    /\ SumIdle /\ TrIdle /\ DlIdle /\ SrIdle

SpecPipeline == InitPipeline /\ [][PipelineNext]_vars

\* A run of either mode: the process of main.py with its primary run, for
\* each combination of credentials, or one call of run_market_flow_simple()
\* over the tools.
InitRuns ==
    \/ Init /\ entry = "main_py"
    \/ InitPipeline

\* The program is sequential and every call it makes returns or raises, so a
\* run that can take a step takes one: weak fairness of the steps.
\* fallback_return and send_sync_start can be taken exactly where their
\* first conjuncts hold and leave that position, so their weak fairness is
\* written with that guard in the place of ENABLED.
FairRuns ==
    /\ WF_vars(LightStep)
    /\ []<>~(sum_pc = "except" /\ ~(attempt < max_retries - 1))
    /\ []<>~(dl_pc = "called")

SpecRuns == InitRuns /\ [][RunsNext]_vars /\ FairRuns

----------------------------------------------------------------------------
(* Claims about the orchestrator, checked under Spec                       *)

\* the send_tool.run invocations made by run_market_flow's except clause
ErrorNotifications == SelectSeq(send_log, LAMBDA r : r.kind = "error")

\* C1: whenever an exception surfaces inside run_market_flow, Delivery is
\* invoked exactly once with the minimal report (empty charts, the three
\* fixed failure strings as translations), and afterwards the original
\* exception is raised to the caller, whether the notification succeeded or
\* failed; without an exception no such notification is made.
C1_NotifiedOnceThenReraised ==
    /\ Len(ErrorNotifications) <= 1
    /\ e = "" => ErrorNotifications = <<>>
    /\ (e # "" /\ pc # "except") =>
         /\ Len(ErrorNotifications) = 1
         /\ ErrorNotifications[1].mode = "primary"
         /\ ErrorNotifications[1].data.charts = <<>>
         /\ ErrorNotifications[1].data.translations =
              [Hindi |-> "hi: daily summary failed",
               Arabic |-> "ar: daily summary failed",
               Hebrew |-> "he: daily summary failed"]
    /\ (e # "" /\ pc \notin {"except", "raise_e"}) =>
         /\ primary_result = "raised"
         /\ raised = e

\* C1 witness: Summarization raised, the notification itself failed, and the
\* original exception has been raised to the caller.
C1_Witness ==
    /\ pc = "primary_exit"
    /\ e = StageError("summary")
    /\ raised = e
    /\ Len(ErrorNotifications) = 1
    /\ ~ErrorNotifications[1].ok

SimpleStarted == pc = "simple" \/ simple_result # "none"

\* C2 as stated: the simplified mode starts only when the primary mode failed
\* during initialization; a failure after a stage has started never starts it.
C2_SimpleOnlyOnInitFailure ==
    SimpleStarted => e \in {InitError, LLMInitError}

\* C2 amended: market_flow.main runs the primary mode first and starts the
\* simplified mode exactly when run_market_flow raised, be it during
\* initialization or after stages had started; main.py never starts it.
C2_SimpleIffPrimaryRaised ==
    /\ SimpleStarted =>
         /\ entry = "market_flow_main"
         /\ primary_result = "raised"
         /\ raised # ""
    /\ (pc = "done" /\ entry = "market_flow_main" /\ primary_result = "raised")
         => simple_result # "none"
    /\ entry = "main_py" => ~SimpleStarted

\* C2 witness: the simplified mode running after an in-run failure of the
\* primary mode (Summarization raised through crew.kickoff).
C2_Witness ==
    /\ pc = "simple"
    /\ e = StageError("summary")
    /\ stage["search"] = "running"

\* the send_tool.run invocations that hand over a run's report
ReportsSent == SelectSeq(send_log, LAMBDA r : r.kind = "report")

----------------------------------------------------------------------------
(* Claims about Summarization, checked under SpecSummary                   *)

RECURSIVE SumRange(_, _, _)
SumRange(q, lo, hi) ==
    IF lo > hi THEN 0
    ELSE IF lo = hi THEN q[lo]
    ELSE SumRange(q, lo, (lo + hi) \div 2)
         + SumRange(q, (lo + hi) \div 2 + 1, hi)

\* the sum of a sequence of numbers
SumSeq(q) == SumRange(q, 1, Len(q))

\* summary_agent returned the fallback after the last attempt failed
FellBack ==
    sum_pc = "returned" /\ success_attempt = 0 /\ completion_calls > 0

\* C4: for non-empty headlines at most 5 completion calls are made; after
\* the failed attempt number a (from 0) other than the fifth the tool sleeps
\* 2^a seconds before the next call; no call follows a success; after the
\* fifth failure it does not sleep and returns the fallback.
C4_RetrySchedule ==
    /\ completion_calls <= 5
    /\ \A i \in 1..Len(sleeps) : sleeps[i] = 2 ^ (i - 1)
    /\ sum_pc = "attempt" =>
         completion_calls = attempt /\ Len(sleeps) = attempt
    /\ sum_pc = "except" =>
         completion_calls = attempt + 1 /\ Len(sleeps) = attempt
    /\ (sum_pc = "returned" /\ success_attempt > 0) =>
         /\ completion_calls = success_attempt
         /\ Len(sleeps) = success_attempt - 1
    /\ (sum_pc = "returned" /\ success_attempt = 0 /\ headlines # <<>>) =>
         /\ completion_calls = 5
         /\ Len(sleeps) = 4
         /\ summary \notin LLMSummaries

\* C4 witness: all five calls failed, four sleeps were made, the fallback
\* was returned.
C4_Witness ==
    /\ FellBack
    /\ completion_calls = 5
    /\ sleeps = <<1, 2, 4, 8>>

\* C5: when the completion call first succeeds on attempt k (1 <= k <= 5),
\* the backoff sleeps total 2^0 + ... + 2^(k-2) = 2^(k-1) - 1 seconds.
C5_TotalBackoff ==
    (sum_pc = "returned" /\ success_attempt >= 1) =>
        /\ success_attempt <= 5
        /\ SumSeq(sleeps) = 2 ^ (success_attempt - 1) - 1

\* C5 witness: success on the fifth attempt after 1 + 2 + 4 + 8 seconds.
C5_Witness ==
    /\ sum_pc = "returned"
    /\ success_attempt = 5
    /\ SumSeq(sleeps) = 15

\* C6: when all 5 attempts fail, the result is the headlines joined with
\* spaces if that text has at most 200 words; otherwise it is the first 200
\* words joined by single spaces followed by the ellipsis, so it has exactly
\* 200 words and ends with the ellipsis.
C6_FallbackTruncation ==
    FellBack =>
        LET joined == join(<<" ">>, Strings(headlines))
            words == split(joined)
        IN  IF Len(words) <= 200
            THEN summary = joined
            ELSE /\ Len(split(summary)) = 200
                 /\ \A k \in 1..199 : split(summary)[k] = words[k]
                 /\ split(summary)[200] = words[200] \o <<".", ".", ".">>
                 /\ Len(summary) = 199 + 3 + SumSeq([k \in 1..200 |-> Len(words[k])])
                 /\ SubSeq(summary, Len(summary) - 2, Len(summary))
                      = <<".", ".", ".">>

\* C6 witness: a fallback over headlines of 201 words in two headlines.
C6_Witness ==
    /\ FellBack
    /\ Len(headlines) = 2
    /\ Len(split(join(<<" ">>, Strings(headlines)))) = 201

\* C7: when the normalized headline sequence is empty, the tool returns the
\* sentinel "No news available to summarize." with zero completion calls
\* and zero sleeps.
C7_EmptyHeadlinesSentinel ==
    (sum_pc # "called" /\ headlines = <<>>) =>
        /\ sum_pc = "returned"
        /\ summary = NoNewsSentinel
        /\ completion_calls = 0
        /\ sleeps = <<>>

\* C7 witness: a mapping whose "news" entry is an empty list.
C7_Witness ==
    /\ sum_pc = "returned"
    /\ news.t = "dict"
    /\ HasKey(news, k_news)
    /\ headlines = <<>>
    /\ summary = NoNewsSentinel

\* C8 as stated: for every input shape the normalization yields a flat
\* sequence of strings and the stage returns a string without raising, also
\* when a list found in the input has non-string elements.
C8_NeverRaises ==
    /\ sum_pc # "raised"
    /\ sum_pc # "called" => Joinable(headlines)

----------------------------------------------------------------------------
(* Claims about Translation, checked under SpecTranslate                   *)

\* the required keys the decoded response lacks
MissingLangs(d) == {i \in 1..3 : ~HasKey(d, Langs[i])}

\* C9: every value translate_agent returns, on every path (blank input,
\* full parse, partial parse, any failure), is a mapping that has the three
\* keys "Hindi", "Arabic" and "Hebrew".
C9_AllThreeKeys ==
    tr_pc = "returned" =>
        /\ translations.t = "dict"
        /\ HasKey(translations, <<"H", "i", "n", "d", "i">>)
        /\ HasKey(translations, <<"A", "r", "a", "b", "i", "c">>)
        /\ HasKey(translations, <<"H", "e", "b", "r", "e", "w">>)

\* C9 witness: a partial parse, the decoded response lacking "Hebrew".
C9_Witness ==
    /\ tr_pc = "returned"
    /\ DecodeResponse(content).ok
    /\ ~HasKey(DecodeResponse(content).val, k_Hebrew)
    /\ HasKey(DecodeResponse(content).val, k_Hindi)

\* C10: when the response decodes to an object that lacks exactly one of
\* the three keys, the returned mapping has the original input text under
\* the missing key and the parsed values under the other two.
C10_MissingKeyBackfilled ==
    (tr_pc = "returned" /\ DecodeResponse(content).ok) =>
        LET parsed == DecodeResponse(content).val
        IN  Cardinality(MissingLangs(parsed)) = 1 =>
                \A i \in 1..3 :
                    Get(translations, Langs[i]) =
                        IF i \in MissingLangs(parsed)
                        THEN PStr(text)
                        ELSE Get(parsed, Langs[i])

\* C10 witness: "Hindi" alone is missing from the decoded response and the
\* input text has surrounding whitespace.
C10_Witness ==
    /\ tr_pc = "returned"
    /\ DecodeResponse(content).ok
    /\ MissingLangs(DecodeResponse(content).val) = {1}
    /\ text = <<" ", "u", "p", " ", "1", "%", "\n">>
    /\ Get(translations, k_Hindi) = PStr(text)
    /\ Get(translations, k_Arabic) = PStr(t_Arabic)

\* C11 as stated: for every response made of arbitrary prose before and/or
\* after one valid JSON object that has all three keys, translate_agent
\* returns exactly the three parsed values and nothing derived from the prose.
C11_ProseDiscarded ==
    (tr_pc = "returned" /\ tr_completion_calls = 1
       /\ content \in WrappedResponses) =>
        translations = PDict(Langs, <<PStr(t_Hindi), PStr(t_Arabic),
                                      PStr(t_Hebrew)>>)

\* C12: if the completion request raises, or the response has no
\* brace-delimited substring, or decoding that substring fails, the tool
\* returns the original text under all three keys, never a mix of parsed and
\* fallback values, and returns rather than raises.
C12_TotalFallback ==
    /\ tr_pc \in {"idle", "called", "completion", "returned"}
    /\ (tr_pc = "returned" /\ tr_completion_calls >= 1
          /\ (~BraceMatch(content).found \/ ~DecodeResponse(content).ok)) =>
         /\ translations.keys = <<k_Hindi, k_Arabic, k_Hebrew>>
         /\ \A i \in 1..3 : translations.items[i] = PStr(text)

\* C12 witness: the matched substring holds parsable members for all three
\* keys but does not decode, and nothing parsed is returned.
C12_Witness ==
    /\ tr_pc = "returned"
    /\ content = BracedProse \o FullObject
    /\ BraceMatch(content).found
    /\ ~DecodeResponse(content).ok
    /\ text = <<"u", "p">>
    /\ Get(translations, k_Arabic) = PStr(text)

\* C13: when the normalized summary text is empty or only whitespace, the
\* tool returns Hindi, Arabic and Hebrew all set to the empty string and
\* makes zero completion calls.
C13_BlankInput ==
    (tr_pc # "called" /\ tr_pc # "idle" /\ strip(text) = <<>>) =>
        /\ tr_pc = "returned"
        /\ translations = PDict(<<k_Hindi, k_Arabic, k_Hebrew>>,
                                <<PStr(<<>>), PStr(<<>>), PStr(<<>>)>>)
        /\ tr_completion_calls = 0

\* C13 witness: a whitespace-only summary.
C13_Witness ==
    /\ tr_pc = "returned"
    /\ text = <<" ", "\n">>
    /\ tr_completion_calls = 0

\* C14: for a non-blank summary one invocation makes exactly one completion
\* call, whatever its outcome (success, malformed response, exception); it
\* never retries.
C14_OneCompletionCall ==
    /\ tr_completion_calls <= 1
    /\ (tr_pc = "returned" /\ strip(text) # <<>>) => tr_completion_calls = 1
    /\ tr_pc = "completion" => tr_completion_calls = 0

\* C14 witness: the single call raised and the tool returned.
C14_Witness ==
    /\ tr_pc = "returned"
    /\ tr_path = "except"
    /\ content = <<>>
    /\ tr_completion_calls = 1

\* a mapping that has domain keys, each of them with an empty value
IsEmptyReport(d) ==
    /\ d.t = "dict"
    /\ HasKey(d, k_summary) /\ Get(d, k_summary) = PStr(<<>>)
    /\ HasKey(d, k_charts) => Get(d, k_charts) = PList(<<>>)
    /\ HasKey(d, k_translations) => Get(d, k_translations) = PDict(<<>>, <<>>)

\* C15: when the report handed to send_agent has an empty summary, empty
\* charts and empty translations, send_agent returns "No data available to
\* send" and makes no HTTP post at all (no sendMessage, no sendPhoto, no
\* error notification).
C15_NothingToSend ==
    (dl_pc \notin {"idle", "called"} /\ IsEmptyReport(dl_data)) =>
        /\ dl_pc = "returned"
        /\ dl_result = NoDataStatus
        /\ http_log = <<>>

\* C15 witness: the call with the empty report has returned.
C15_Witness ==
    /\ dl_pc = "returned"
    /\ dl_data = Structured(<<>>, NoCharts, NoTrs)
    /\ structured_data = dl_data
    /\ dl_result = NoDataStatus

\* the posts that carried a part of the report
ReportPosts == SelectSeq(http_log, LAMBDA post : post.purpose = "report")

\* C16 as stated: for every assembled message longer than 4000 characters,
\* every part that is sent (the chunk together with its "Part i/N" label) is
\* at most 4000 characters long, and a 9000-character message is sent as at
\* least 3 parts, whatever the line layout of the message.
C16_PartsWithinLimit ==
    Len(full_message) > LengthLimit =>
        /\ \A i \in 1..Len(ReportPosts) :
              Len(ReportPosts[i].text) <= LengthLimit
        /\ (Len(full_message) = 9000 /\ dl_pc = "charts") =>
              Cardinality({ReportPosts[i].index : i \in 1..Len(ReportPosts)})
                  >= 3

\* the positions of the newlines of a message, in increasing order
NewlinePositions(message) ==
    Ascending({i \in 1..Len(message) : message[i] = "\n"}, 1, Len(message))

\* the first and the last position of line k of a message whose newlines
\* are at nl and whose length is n
LineStart(nl, k) == IF k = 1 THEN 1 ELSE nl[k - 1] + 1
LineEnd(nl, n, k) == IF k = Len(nl) + 1 THEN n ELSE nl[k] - 1

\* the text of part i without its label
Chunk(i) ==
    SubSeq(outbox[i], Len(PartLabel(i, Len(outbox))) + 1, Len(outbox[i]))

\* the parts of the report are posted in order, each with its text, and
\* all of them before the photos
PartsPostedInOrder ==
    /\ \A j \in 1..Len(ReportPosts) :
          /\ ReportPosts[j].index \in 1..Len(outbox)
          /\ ReportPosts[j].text = outbox[ReportPosts[j].index]
          /\ j = 1 => ReportPosts[j].index = 1
          /\ j > 1 => \/ /\ ReportPosts[j].index = ReportPosts[j - 1].index
                         /\ ~ReportPosts[j - 1].ok
                      \/ /\ ReportPosts[j].index = ReportPosts[j - 1].index + 1
                         /\ ReportPosts[j - 1].ok
    /\ dl_pc = "charts" =>
          \A i \in 1..Len(outbox) :
             \E j \in 1..Len(ReportPosts) :
                ReportPosts[j].index = i /\ ReportPosts[j].ok

\* a message that fits is sent as one message without a label
FittingMessageUnlabeled ==
    (full_message # <<>> /\ Len(full_message) <= LengthLimit) =>
        outbox = <<full_message>>

\* C17 as stated: every chunk consists of whole consecutive lines of the
\* message, no line is split across two chunks, the lines appear across the
\* chunks in their original order, the chunks are sent as "Part i/N" in the
\* order i = 1..N, and a message of at most 4000 characters is sent as
\* exactly one unlabeled message.
C17_WholeLinesInOrder ==
    LET n == Len(full_message)
        nl == NewlinePositions(full_message)
        Spans(i) == {p \in (1..(Len(nl) + 1)) \X (1..(Len(nl) + 1)) :
                        /\ p[1] <= p[2]
                        /\ LineEnd(nl, n, p[2]) - LineStart(nl, p[1]) + 1
                              = Len(Chunk(i))
                        /\ SubSeq(full_message, LineStart(nl, p[1]),
                                  LineEnd(nl, n, p[2])) = Chunk(i)}
    IN  /\ n > LengthLimit =>
              /\ \A i \in 1..Len(outbox) :
                    /\ StartsWith(outbox[i], PartLabel(i, Len(outbox)))
                    /\ Spans(i) # {}
              /\ \A i \in 1..(Len(outbox) - 1) :
                    \E p \in Spans(i), q \in Spans(i + 1) : p[2] < q[1]
        /\ FittingMessageUnlabeled
        /\ PartsPostedInOrder

\* the last line of the run that starts with line a: the run takes the
\* following lines as long as its length, every line counted with its
\* newline, stays within max_length
RunEnd(nl, n, a) ==
    LET Fits(b) == b = a \/ LineEnd(nl, n, b) - LineStart(nl, a) + 2
                                <= max_length
    IN  CHOOSE b \in a..(Len(nl) + 1) :
            Fits(b) /\ (b = Len(nl) + 1 \/ ~Fits(b + 1))

RECURSIVE RunsFrom(_, _, _)
\* the runs of a message from line a on, each stripped of the whitespace
\* at its ends
RunsFrom(message, nl, a) ==
    IF a > Len(nl) + 1 THEN <<>>
    ELSE <<strip(SubSeq(message, LineStart(nl, a),
                        LineEnd(nl, Len(message), RunEnd(nl, Len(message), a))))>>
         \o RunsFrom(message, nl, RunEnd(nl, Len(message), a) + 1)

\* C17, corrected: the lines of a message longer than 4000 characters are
\* divided, in order, into greedy runs of whole lines; the chunks are the
\* runs with the whitespace at their ends stripped, a run of nothing but
\* whitespace giving no chunk; chunk i is sent behind the label "Part i/N:"
\* and an empty line, the parts in the order 1..N; a message of at most
\* 4000 characters is sent as one unlabeled message.
C17_StrippedGreedyRuns ==
    /\ Len(full_message) > LengthLimit =>
          LET runs == SelectSeq(RunsFrom(full_message,
                                         NewlinePositions(full_message), 1),
                                LAMBDA r : r # <<>>)
          IN  outbox = [i \in 1..Len(runs) |->
                           PartLabel(i, Len(runs)) \o runs[i]]
    /\ FittingMessageUnlabeled
    /\ PartsPostedInOrder

\* C17 witness: every part of a message of several parts has been posted,
\* one of them on its second post, and stripping shortened a chunk.
C17_Witness ==
    /\ dl_pc = "charts"
    /\ Len(outbox) >= 2
    /\ Len(ReportPosts) > Len(outbox)
    /\ \E i \in 1..(Len(full_message) - 2) :
          /\ full_message[i] = "\n"
          /\ full_message[i + 1] = " "
          /\ Chunk(2)[1] = "a"
          /\ Len(Chunk(1)) = i - 1

\* the posts of one call of _send_telegram_message: those of http_log, from
\* position lo to hi, are text posts of the same message
SameSend(lo, hi) ==
    \A j \in lo..hi :
        /\ http_log[j].method = "sendMessage"
        /\ http_log[j].purpose = http_log[lo].purpose
        /\ http_log[j].index = http_log[lo].index

\* the send of a part of the report raised to send_sync
SendRaised == dl_error = HttpError

\* C18: each text message send makes at most two HTTP posts: the first with
\* Markdown formatting; only if that one fails, exactly one more post of the
\* same text with formatting disabled; the send raises to its caller if and
\* only if both posts fail.
C18_MarkdownThenPlain ==
    /\ \A j \in 1..Len(http_log) :
          http_log[j].method = "sendMessage" =>
             \* the first post of a send
             \/ /\ http_log[j].parse_mode = "Markdown"
                /\ j = 1 \/ ~SameSend(j - 1, j)
                /\ http_log[j].ok =>
                      (j = Len(http_log) \/ ~SameSend(j, j + 1))
                /\ ~http_log[j].ok =>
                      IF j = Len(http_log)
                      THEN dl_pc \in {"message_plain", "error_plain"}
                      ELSE SameSend(j, j + 1)
             \* the retry of the failed post before it, and the last post
             \/ /\ http_log[j].parse_mode = "None"
                /\ j > 1 /\ SameSend(j - 1, j)
                /\ http_log[j - 1].parse_mode = "Markdown"
                /\ ~http_log[j - 1].ok
                /\ http_log[j - 1].text = http_log[j].text
                /\ j = Len(http_log) \/ ~SameSend(j, j + 1)
    /\ SendRaised <=>
          \E j \in 1..Len(http_log) :
             /\ http_log[j].purpose = "report"
             /\ http_log[j].parse_mode = "None"
             /\ ~http_log[j].ok

\* C18 witness: the Markdown post of a part failed, so did the plain one,
\* and the send raised to send_sync.
C18_Witness ==
    /\ Len(http_log) >= 2
    /\ http_log[1].parse_mode = "Markdown" /\ ~http_log[1].ok
    /\ http_log[2].parse_mode = "None" /\ ~http_log[2].ok
    /\ http_log[2].text = http_log[1].text
    /\ SendRaised

\* the photo posts, in order
PhotoPosts == SelectSeq(http_log, LAMBDA post : post.method = "sendPhoto")

\* the number of photo posts that succeeded
PhotosSucceeded ==
    Cardinality({j \in 1..Len(PhotoPosts) : PhotoPosts[j].ok})

\* send_agent returned its success status
ReturnedSuccess ==
    /\ dl_pc = "returned"
    /\ dl_error = <<>>
    /\ dl_result # NoDataStatus

\* the call was given a report with 7 chart references, exactly one of
\* them without http:// or https://
SevenChartsOneInvalid ==
    /\ dl_data.t = "dict" /\ HasKey(dl_data, k_charts)
    /\ Get(dl_data, k_charts).t = "list"
    /\ Len(Get(dl_data, k_charts).items) = 7
    /\ Cardinality({i \in 1..7 :
                       ~ValidChartUrl(Get(dl_data, k_charts).items[i])}) = 1

\* C19 as stated: given 7 chart references of which exactly one, at any
\* position, does not start with http:// or https://, exactly 5 photo sends
\* are attempted, never the invalid reference, and the number returned is
\* the number of attempted sends that succeeded.
C19_FiveOfSeven ==
    (ReturnedSuccess /\ SevenChartsOneInvalid) =>
        /\ Len(PhotoPosts) = 5
        /\ \A j \in 1..Len(PhotoPosts) : PhotoPosts[j].photo # InvalidRef.s
        /\ dl_result = SuccessStatus(PhotosSucceeded)

\* C20: for every chart list and every pattern of photo-send failures, a
\* failed photo send does not stop the sends of the later charts, no chart
\* is attempted more than once, at most 5 photo sends are attempted, and the
\* count returned equals the number of photo sends that succeeded.
C20_ChartFailuresIsolated ==
    /\ Len(PhotoPosts) <= ChartLimit
    /\ \A j \in 1..Len(PhotoPosts) :
          /\ j > 1 => PhotoPosts[j - 1].index < PhotoPosts[j].index
          /\ PhotoPosts[j].index \in 1..Len(ChartsToSend)
          /\ ValidChartUrl(ChartsToSend[PhotoPosts[j].index])
          /\ PhotoPosts[j].photo = ChartsToSend[PhotoPosts[j].index].s
    /\ charts_sent = PhotosSucceeded
    /\ ReturnedSuccess =>
          /\ dl_result = SuccessStatus(PhotosSucceeded)
          /\ \A i \in 1..Len(ChartsToSend) :
                ValidChartUrl(ChartsToSend[i]) =>
                   \E j \in 1..Len(PhotoPosts) : PhotoPosts[j].index = i

\* C20 witness: the first photo post failed, four later ones were made, not
\* all of them successful, and the count of the successes was returned.
C20_Witness ==
    /\ ReturnedSuccess
    /\ Len(PhotoPosts) = ChartLimit
    /\ ~PhotoPosts[1].ok
    /\ PhotoPosts[2].ok /\ ~PhotoPosts[3].ok /\ PhotoPosts[5].ok
    /\ PhotosSucceeded = 3
    /\ dl_result = SuccessStatus(3)

----------------------------------------------------------------------------
(* Claims about News Retrieval, checked under SpecSearch                   *)

SearchReturned == sr_pc = "returned"

\* the headlines of a returned list
IsHeadlineList(v) ==
    /\ v.t = "list"
    /\ \A i \in 1..Len(v.items) : v.items[i].t = "str"

NoProviderYielded ==
    \A i \in 1..Len(search_posts) : search_posts[i].results = <<>>

\* C21: for every query and every combination of credentials and provider
\* outcomes, News Retrieval does not raise and returns a non-empty sequence
\* of headlines: every exception of an attempt is caught inside the attempt,
\* so an invocation that has not returned always has a next step, and the
\* value it returns is a non-empty list of strings.
C21_NeverRaisesNonEmpty ==
    /\ ~SearchReturned => ENABLED SrNext
    /\ SearchReturned =>
         /\ IsHeadlineList(sr_result)
         /\ Len(sr_result.items) > 0

\* Both providers were called and both attempts ended in an exception; the
\* invocation returned all the same.
C21_Witness ==
    /\ SearchReturned
    /\ Len(search_posts) = 2
    /\ \A i \in 1..2 : search_posts[i].raised
    /\ Len(sr_result.items) > 0

\* the attempt of a post yielded nothing: it raised, the status was not 200,
\* or the result list was empty
FellThrough(post) ==
    \/ post.raised
    \/ post.response.status_code # 200
    \/ post.results = <<>>

\* C22: providers are tried in fixed priority order. Tavily is posted to
\* first when its credential is set; Serper is posted to only if its
\* credential is set and Tavily was not configured, raised, answered non-200
\* or yielded no results; a non-empty result list ends the search and is
\* what the tool returns.
C22_ProviderPriority ==
    /\ Len(search_posts) <= 2
    /\ \A i \in 1..Len(search_posts) :
         LET post == search_posts[i]
         IN  /\ post.provider = "tavily" => i = 1 /\ TAVILY_API_KEY
             /\ post.provider = "serper" =>
                  /\ SERPER_API_KEY
                  /\ \/ i = 1 /\ ~TAVILY_API_KEY
                     \/ /\ i = 2
                        /\ search_posts[1].provider = "tavily"
                        /\ FellThrough(search_posts[1])
                        /\ search_posts[1].results = <<>>
             /\ post.results # <<>> =>
                  /\ i = Len(search_posts)
                  /\ sr_pc \in {"fetched", "returned"}
                  /\ SearchReturned => sr_result = PList(post.results)
    /\ TAVILY_API_KEY /\ sr_pc \in {"serper", "fetched", "returned"} =>
         /\ search_posts # <<>>
         /\ search_posts[1].provider = "tavily"

\* Tavily answered 500, Serper then yielded two headlines, the first with
\* its snippet cut to 150 characters, and these were returned.
C22_Witness ==
    /\ SearchReturned
    /\ Len(search_posts) = 2
    /\ search_posts[1].provider = "tavily"
    /\ search_posts[1].response.status_code = 500
    /\ search_posts[2].provider = "serper"
    /\ Len(search_posts[2].results) = 2
    /\ sr_result = PList(search_posts[2].results)
    /\ Len(sr_result.items[1].s) = 9 + 3 + SnippetLimit

FallbackLists ==
    {mock_news(Dates[i], Dates[j]) : i, j \in 1..Len(Dates)}

\* C23: when no provider yields results (no credential, every call failed
\* or every call came back empty) the tool returns the hardcoded list of at
\* least 10 headlines, and without any search credential it makes no HTTP
\* call.
C23_FallbackList ==
    /\ SearchReturned /\ NoProviderYielded =>
         /\ sr_result \in FallbackLists
         /\ Len(sr_result.items) >= 10
    /\ ~TAVILY_API_KEY /\ ~SERPER_API_KEY => search_posts = <<>>

\* Without credentials the hardcoded list was returned and nothing was
\* posted.
C23_Witness ==
    /\ SearchReturned
    /\ ~TAVILY_API_KEY /\ ~SERPER_API_KEY
    /\ search_posts = <<>>
    /\ sr_result \in FallbackLists

----------------------------------------------------------------------------
(* Claims about report normalization and message assembly, checked under   *)
(* SpecDelivery                                                            *)

\* a mapping with exactly the keys summary (a string), charts (a list) and
\* translations (a mapping)
WellShaped(v) ==
    /\ v.t = "dict"
    /\ Len(v.keys) = 3
    /\ \A k \in {k_summary, k_charts, k_translations} : HasKey(v, k)
    /\ Get(v, k_summary).t = "str"
    /\ Get(v, k_charts).t = "list"
    /\ Get(v, k_translations).t = "dict"

\* C24: for every input value _parse_input_data returns, without raising, a
\* mapping with exactly the keys summary (a string), charts (a list) and
\* translations (a mapping), also when the "charts" or "translations" entry
\* of a mapping input is null or of the wrong type.
C24_NormalizationTotal ==
    dl_pc \notin {"idle", "called"} =>
        /\ _parse_input_data(dl_data).ok
        /\ WellShaped(structured_data)

\* the positions of a text that hold a Markdown character with no backslash
\* before it
Unescaped(chars) ==
    {i \in 1..Len(chars) :
        /\ chars[i] \in chars_to_escape
        /\ (i = 1 \/ chars[i - 1] # "\\")}

\* the translations a message shows: those whose value has visible text
ShownLanguages(sd) ==
    {i \in 1..Len(Get(sd, k_translations).items) :
        LET v == Get(sd, k_translations).items[i]
        IN  v.t = "str" /\ strip(v.s) # <<>>}

\* the formatting characters of the fixed template text: the two stars of
\* each heading and label, the rule of 30 "=", the two hyphens of the date
TemplateFormatting(sd) ==
    2 + 30
    + (IF strip(Get(sd, k_summary).s) # <<>> THEN 2 ELSE 0)
    + (IF Get(sd, k_translations).keys # <<>>
       THEN 2 + 2 * Cardinality(ShownLanguages(sd)) ELSE 0)
    + (IF Get(sd, k_charts).items # <<>> THEN 2 ELSE 0)
    + 2 + 2 + 2

\* C25: in the assembled message every Markdown-sensitive character that
\* comes from report content (summary, translation values, translation keys
\* shown as labels) is preceded by a backslash, so the only characters of
\* that kind without a backslash are those of the fixed template text.
C25_ContentEscaped ==
    full_message # <<>> =>
        Cardinality(Unescaped(full_message)) = TemplateFormatting(structured_data)

----------------------------------------------------------------------------
(* Claims about the simplified mode and the configuration, checked under   *)
(* Spec                                                                    *)

\* the stages that come after step i of the simplified run
LaterSteps(i) == {SimpleSteps[j] : j \in (i + 1)..Len(SimpleSteps)}

SimpleRaisedAt(i) == stage[SimpleSteps[i]] = "raised"

\* what holds at every moment of a simplified run
SimpleRunShape ==
    /\ \A i \in 1..Len(SimpleSteps) :
         /\ i > 1 /\ stage[SimpleSteps[i]] # "idle" =>
                stage[SimpleSteps[i - 1]] = "returned"
         /\ SimpleRaisedAt(i) =>
              /\ \A s \in LaterSteps(i) : stage[s] = "idle"
              /\ pc = "done"
              /\ simple_result = "All flows failed"
              /\ process_result = "returned"
    /\ \A i \in 1..Len(send_log) :
         send_log[i].mode = "simple" => send_log[i].kind = "report"
    /\ Len(SelectSeq(send_log, LAMBDA r : r.mode = "simple")) <= 1

\* a step of a simplified run never takes a stage back: a stage that was
\* invoked is not invoked again, and one that ended stays as it ended
SimpleStagesAdvance ==
    pc = "simple" =>
        \A s \in Stages :
            /\ stage[s] # "idle" => stage'[s] # "idle"
            /\ stage[s] \in {"returned", "raised"} => stage'[s] = stage[s]

\* C26: in the simplified mode each of the five stages is invoked at most
\* once and in the order Retrieval, Summarization, Charts, Translation,
\* Delivery; no stage is invoked again because a later one failed; when a
\* stage raises, no error-notification Delivery call is made, the remaining
\* stages are skipped and a failure status string is returned instead of an
\* exception.
C26_SimpleRunOnce ==
    /\ [](SimpleStarted => SimpleRunShape)
    /\ [][SimpleStagesAdvance]_vars

\* Translation raised in the simplified run: Delivery was never invoked and
\* the run returned its failure string.
C26_Witness ==
    /\ pc = "done"
    /\ stage["translate"] = "raised"
    /\ stage["summary"] = "returned"
    /\ stage["send"] = "idle"
    /\ simple_result = "All flows failed"
    /\ \A i \in 1..Len(send_log) : send_log[i].mode # "simple"

RequiredCredentialMissing ==
    ~GROQ_API_KEY \/ ~TELEGRAM_BOT_TOKEN \/ ~TELEGRAM_CHAT_ID

\* C27: a missing required credential (model, chat bot, chat destination)
\* is fatal at startup: no stage and no Delivery call happens in that run and
\* the process ends with the error; missing search credentials alone are no
\* error.
C27_MissingCredentialFatal ==
    /\ RequiredCredentialMissing =>
         /\ stage = IdleStages
         /\ send_log = <<>>
         /\ pc = "done" => process_result = "raised"
    /\ (~RequiredCredentialMissing /\ pc # "import_config") => missing = <<>>

ErrorPosts == SelectSeq(http_log, LAMBDA post : post.purpose = "error")

\* send_sync's except clause was entered
DeliveryFailed == dl_error # <<>>

\* the error notification is one send: a Markdown post, and a plain post
\* only behind a failed Markdown post
OneNotification ==
    /\ Len(ErrorPosts) \in 1..2
    /\ ErrorPosts[1].parse_mode = "Markdown"
    /\ Len(ErrorPosts) = 2 =>
         ~ErrorPosts[1].ok /\ ErrorPosts[2].parse_mode = "None"
    /\ \A i \in 1..Len(ErrorPosts) :
         ErrorPosts[i].text = ErrorText(dl_error)

\* a step of send_agent behind normalization and assembly
DeliveryStep ==
    \/ _send_telegram_message_markdown
    \/ _send_telegram_message_plain
    \/ chart_skip_invalid
    \/ _send_telegram_photo
    \/ send_sync_return

\* C29: send_agent never raises. When normalization, assembly or the send
\* of a text part (after its plain retry) fails, no later text part and no
\* photo is sent, exactly one error notification is attempted, whose own
\* failure is swallowed, and an error status string is returned; when
\* nothing fails every text part is sent before the first photo post.
C29_DeliveryNeverRaises ==
    /\ dl_pc \notin {"idle", "called", "returned"} => ENABLED DeliveryStep
    /\ dl_pc = "returned" => dl_result # <<>>
    /\ DeliveryFailed =>
         /\ PhotoPosts = <<>>
         /\ \A i \in 1..Len(http_log) : \A j \in (i + 1)..Len(http_log) :
              http_log[i].purpose = "error" => http_log[j].purpose = "error"
         /\ dl_error = HttpError =>
              /\ ReportPosts # <<>>
              /\ ~ReportPosts[Len(ReportPosts)].ok
              /\ ReportPosts[Len(ReportPosts)].parse_mode = "None"
         /\ dl_error # HttpError => ReportPosts = <<>>
         /\ dl_pc \in {"error_plain", "returned"} => OneNotification
         /\ dl_pc = "returned" => dl_result = ErrorStatus(dl_error)
    /\ ~DeliveryFailed => ErrorPosts = <<>>
    /\ PhotoPosts # <<>> =>
         /\ Len(SelectSeq(ReportPosts, LAMBDA post : post.ok)) = Len(outbox)
         /\ \A i \in 1..Len(http_log) : \A j \in 1..Len(http_log) :
              (http_log[i].purpose = "report" /\ http_log[j].method = "sendPhoto")
                 => i < j

\* The second part of a split message could not be sent in either mode;
\* the notification failed twice as well, and the error status came back.
C29_Witness ==
    /\ dl_pc = "returned"
    /\ dl_error = HttpError
    /\ Len(outbox) > 2
    /\ ReportPosts[Len(ReportPosts)].index = 2
    /\ Len(ErrorPosts) = 2
    /\ ~ErrorPosts[2].ok
    /\ dl_result = ErrorStatus(HttpError)

\* the normalized report holds nothing at all
NormalizedEmpty ==
    /\ structured_data.t = "dict"
    /\ Get(structured_data, k_summary).s = <<>>
    /\ Get(structured_data, k_charts).items = <<>>
    /\ Get(structured_data, k_translations).keys = <<>>

\* the normalized report of a blank summary: no charts, and the mapping
\* translate_agent returns for a blank text
BlankSummaryReport ==
    /\ structured_data.t = "dict"
    /\ strip(Get(structured_data, k_summary).s) = <<>>
    /\ Get(structured_data, k_charts).items = <<>>
    /\ Get(structured_data, k_translations) = AllLangs(<<>>)

\* C30: send_agent returns the nothing-to-send status if and only if the
\* normalized report has an empty summary, an empty chart list and a
\* translations mapping without keys; the report of a blank summary with
\* the three-key mapping of blank values passes the guard and a message is
\* posted.
C30_GuardExactlyEmpty ==
    dl_pc = "returned" =>
        /\ dl_result = NoDataStatus <=> NormalizedEmpty
        /\ BlankSummaryReport =>
             /\ dl_result # NoDataStatus
             /\ ReportPosts # <<>>

\* The report of a blank summary was posted, as a message that has neither
\* an overview nor a translation section, and the call reported success.
C30_Witness ==
    /\ dl_pc = "returned"
    /\ BlankSummaryReport
    /\ Get(structured_data, k_summary).s = <<>>
    /\ Len(ReportPosts) = 1
    /\ ReportPosts[1].ok
    /\ ReportPosts[1].text = full_message
    /\ dl_result = SuccessStatus(0)

----------------------------------------------------------------------------
(* Claims about the stages of one simplified run, checked under            *)
(* SpecPipeline                                                            *)

\* what a running tool holds as its argument is what the run handed to it
ArgumentsAsHanded ==
    /\ sum_pc # "idle" => news = news_data
    /\ tr_pc # "idle" => tr_summary = summary_data
    /\ dl_pc # "idle" =>
          /\ dl_data = final_data
          /\ Get(dl_data, k_summary) = summary_data
          /\ Get(dl_data, k_charts) = charts_data
          /\ Get(dl_data, k_translations) = translations_data
    /\ dl_pc \notin {"idle", "called"} /\ structured_data.t = "dict" =>
          /\ Get(structured_data, k_summary) = summary_data
          /\ Get(structured_data, k_charts) = charts_data
          /\ Get(structured_data, k_translations) = translations_data

\* a step of the run leaves every value a stage has bound, and every
\* argument of a tool that keeps running, as it was
ValuesKept ==
    /\ stage["search"] = "returned" => news_data' = news_data
    /\ stage["summary"] = "returned" => summary_data' = summary_data
    /\ stage["charts"] = "returned" => charts_data' = charts_data
    /\ stage["translate"] = "returned" =>
          translations_data' = translations_data
    /\ stage["send"] # "idle" => final_data' = final_data
    /\ sum_pc # "idle" /\ sum_pc' # "idle" => news' = news
    /\ tr_pc # "idle" /\ tr_pc' # "idle" => tr_summary' = tr_summary
    /\ dl_pc # "idle" /\ dl_pc' # "idle" => dl_data' = dl_data
    /\ dl_pc \notin {"idle", "called"} /\ dl_pc' # "idle" =>
          structured_data' = structured_data

\* C28: no stage modifies the value it receives: Summarization leaves the
\* headline sequence as it was, Charts and Translation the summary, and
\* Delivery the report's summary, charts and translations from the moment it
\* starts, across the plain-text retry and the splitting of the message; so
\* Charts, Translation and Delivery see the same summary in one run.
C28_InputsUnmodified == []ArgumentsAsHanded /\ [][ValuesKept]_vars

\* Delivery has returned after sending the report, which has a translation
\* too long for one message, in several parts, one of them by the plain-text
\* retry, and the report it holds still has the summary the summary stage
\* bound, which Translation was handed before.
C28_Witness ==
    /\ stage["translate"] = "returned"
    /\ dl_pc = "returned"
    /\ Len(outbox) > 1
    /\ \E j \in 1..Len(http_log) :
          /\ http_log[j].purpose = "report"
          /\ http_log[j].parse_mode = "None"
          /\ http_log[j].ok
    /\ dl_data = final_data
    /\ Get(structured_data, k_summary) = summary_data
    /\ Get(Get(dl_data, k_translations), k_Hindi) = PStr(LongTranslation)
    /\ Get(dl_data, k_charts) = formatting_charts

----------------------------------------------------------------------------
(* Claims about termination and the calls a run makes, checked under       *)
(* SpecRuns                                                                *)

\* the posts of http_log that sent part i of the report
PartPosts(i) ==
    SelectSeq(http_log, LAMBDA post : /\ post.method = "sendMessage"
                                      /\ post.purpose = "report"
                                      /\ post.index = i)

\* the calls made on collaborators stay within their numbers
ResourceBounds ==
    /\ Len(search_posts) <= 2
    /\ completion_calls <= 5
    /\ tr_completion_calls <= 1
    /\ completion_calls + tr_completion_calls <= 6
    /\ Len(sleeps) <= 4
    /\ \A i \in 1..Len(outbox) : Len(PartPosts(i)) <= 2
    /\ Len(ErrorPosts) <= 2
    /\ Len(PhotoPosts) <= 5
    /\ Len(http_log) = Len(ReportPosts) + Len(ErrorPosts) + Len(PhotoPosts)
    /\ Len(ErrorNotifications) <= 1

\* a stage that has started never starts again, and a tool is called only
\* by the stage it belongs to, when that stage starts
CalledOnce ==
    /\ \A s \in Stages : stage[s] # "idle" => stage'[s] # "idle"
    /\ (sr_pc = "idle" /\ sr_pc' # "idle") => stage["search"] = "idle"
    /\ (sum_pc = "idle" /\ sum_pc' # "idle") => stage["summary"] = "idle"
    /\ (tr_pc = "idle" /\ tr_pc' # "idle") => stage["translate"] = "idle"
    /\ (dl_pc = "idle" /\ dl_pc' # "idle") => stage["send"] = "idle"

\* how a run that is over has ended: the simplified run returned what
\* Delivery returned, all five stages done; the primary run that caught an
\* exception raised it again, behind at most one notification
RunOutcome ==
    pc = "done" =>
        /\ entry = "market_flow_main" =>
              /\ simple_result = "send_result"
              /\ process_result = "returned"
              /\ \A s \in Stages : stage[s] = "returned"
        /\ (entry = "main_py" /\ e # "") =>
              /\ primary_result = "raised"
              /\ raised = e
              /\ process_result = "raised"
              /\ Len(ErrorNotifications) <= 1

\* C31: every run terminates whatever calls on collaborators fail (each call
\* returning or raising): a simplified run makes at most 2 search posts, at
\* most 6 completion calls (5 by summary_agent, 1 by translate_agent), at
\* most 4 backoff sleeps, at most 2 posts for each part of the text and 2
\* for an error notification, at most 5 photo posts, and then returns; a
\* primary run that fails ends by raising the exception again after at most
\* one notification through Delivery.
C31_RunsTerminate ==
    /\ []ResourceBounds
    /\ [][CalledOnce]_vars
    /\ []RunOutcome
    /\ <>(pc = "done")

\* Delivery is about to return in a simplified run whose earlier stages are
\* done: both posts of a part of the report failed, so did both posts of the
\* error notification, and no photo was posted.
C31_Witness ==
    /\ entry = "market_flow_main"
    /\ \A s \in {"search", "summary", "charts", "translate"} :
          stage[s] = "returned"
    /\ stage["send"] = "running"
    /\ dl_pc = "returned"
    /\ \E i \in 1..Len(outbox) :
          /\ Len(PartPosts(i)) = 2
          /\ ~PartPosts(i)[1].ok /\ ~PartPosts(i)[2].ok
    /\ Len(ErrorPosts) = 2
    /\ ~ErrorPosts[1].ok /\ ~ErrorPosts[2].ok
    /\ PhotoPosts = <<>>

----------------------------------------------------------------------------
(* Claims about the priority of the normalization rules, checked under     *)
(* SpecDelivery                                                            *)

\* the mapping has one of the keys summary, charts, translations
HasDomainKey(v) ==
    /\ v.t = "dict"
    /\ \E k \in {k_summary, k_charts, k_translations} : HasKey(v, k)

\* the mapping without the key k
DropKey(d, k) ==
    LET kept == SelectSeq([i \in 1..Len(d.keys) |-> i],
                          LAMBDA i : d.keys[i] # k)
    IN  PDict([i \in 1..Len(kept) |-> d.keys[kept[i]]],
              [i \in 1..Len(kept) |-> d.items[kept[i]]])

\* an envelope: a mapping without domain key that has "raw", or a string
\* that is the JSON text of a mapping
IsEnvelope(v) ==
    \/ v.t = "dict" /\ ~HasDomainKey(v) /\ HasKey(v, k_raw)
    \/ v.t = "str" /\ json_loads(v.s).ok /\ json_loads(v.s).val.t = "dict"

RECURSIVE Innermost(_)
\* what is left of a value when its envelopes are taken off one by one
Innermost(v) ==
    IF ~IsEnvelope(v) THEN v
    ELSE IF v.t = "dict" THEN Innermost(Get(v, k_raw))
    ELSE Innermost(json_loads(v.s).val)

\* the report read from the three keys of a mapping, each absent one empty
DirectReading(d) ==
    Structured(py_str(GetOr(d, k_summary, PStr(<<>>))),
               GetOr(d, k_charts, PList(<<>>)),
               GetOr(d, k_translations, PDict(<<>>, <<>>)))

\* the chart and translation entries the mapping has are a list and a mapping
ProperEntries(d) ==
    /\ GetOr(d, k_charts, PList(<<>>)).t = "list"
    /\ GetOr(d, k_translations, PDict(<<>>, <<>>)).t = "dict"

\* the number of envelopes around the innermost value
RECURSIVE Depth(_)
Depth(v) ==
    IF ~IsEnvelope(v) THEN 0
    ELSE IF v.t = "dict" THEN 1 + Depth(Get(v, k_raw))
    ELSE 1 + Depth(json_loads(v.s).val)

\* C32: _parse_input_data applies its rules in a fixed priority: a mapping
\* with one of the keys summary, charts, translations is read from those keys
\* (an absent one is empty) whether or not it has "raw", so its "raw" entry
\* plays no part; a mapping is unwrapped through "raw" only when it has none
\* of these keys; and a value in envelopes (a mapping under "raw", a JSON
\* text of a mapping) gives what its innermost value gives when normalized
\* directly, as a result and as the report send_sync goes on with.
C32_NormalizationPriority ==
    dl_pc # "idle" =>
        LET r == _parse_input_data(dl_data)
            inner == _parse_input_data(Innermost(dl_data))
        IN  /\ HasDomainKey(dl_data) =>
                /\ r = _parse_input_data(DropKey(dl_data, k_raw))
                /\ ProperEntries(dl_data) =>
                      r = Returns(DirectReading(dl_data))
            /\ (dl_data.t = "dict" /\ ~HasDomainKey(dl_data)
                  /\ HasKey(dl_data, k_raw)) =>
                  r = _parse_input_data(Get(dl_data, k_raw))
            /\ r = inner
            /\ dl_pc # "called" =>
                  IF inner.ok
                  THEN structured_data \in StructuredChoices(inner)
                  ELSE dl_pc \in {"error", "error_plain", "returned"}
                       /\ structured_data = PNone

\* send_sync went on with the report of a value in three envelopes (a JSON
\* text under "raw" whose mapping has "raw" again); the innermost mapping
\* has a summary and a "raw" entry of its own, and only its summary was read.
C32_Witness ==
    /\ dl_pc \notin {"idle", "called"}
    /\ Depth(dl_data) >= 3
    /\ HasDomainKey(Innermost(dl_data))
    /\ HasKey(Innermost(dl_data), k_raw)
    /\ HasDomainKey(Get(Innermost(dl_data), k_raw))
    /\ structured_data = DirectReading(Innermost(dl_data))
    /\ Get(structured_data, k_charts) = PList(<<>>)
    /\ Get(structured_data, k_summary)
          # Get(Get(Innermost(dl_data), k_raw), k_summary)

====
